---------------------------- MODULE Spec2Model ----------------------------
(***************************************************************************)
(* A model of the ponder synchronisation engine.                           *)
(*                                                                         *)
(*   Part I   backfillSource (packages/ponder/src/core/tasks/              *)
(*            backfillSource.ts): the planning of the log-backfill tasks   *)
(*            of a source and the draining of its two queues.              *)
(*   Part II  run (packages/core/src/bin/utils/run.ts): the start()        *)
(*            sequence, the realtime queue and its worker, and the         *)
(*            shutdown function that run returns.                          *)
(*   Part III the filter matchers (sync/filter.ts), each applied to inputs  *)
(*            drawn from bounded sets, and the /client/db handler of the   *)
(*            client middleware; the variable call records the call.       *)
(***************************************************************************)
EXTENDS Integers, Sequences, FiniteSets, TLC

(***************************************************************************)
(* Bounds of the model.                                                    *)
(***************************************************************************)
NumSources == 2
MaxBlock == 4
MaxBlockLimit == 2
MaxCached == 1
MaxAttempts == 2
QueueConcurrency == 2
MaxRefs == 1
MaxBatches == 1
MaxRealtimeEvents == 2
MaxSplits == 2
MaxShutdownCalls == 1
MaxRepeatedShutdowns == 1
MaxSyncBlock == 1
MaxTopics == 4
MaxInterval == 3
MaxIntervalBlock == 16
MaxSqlWords == 2
MaxRequests == 2
MaxEventFilters == 2
MaxStreams == 2
MaxNotifications == 2
MaxLatestCalls == 3
MaxNetworks == 2
MaxHead == 16
MaxNameTokens == 3
MaxStatusBlock == 1
MaxSetStatus == 2

Sources == 1..NumSources
Blocks == 0..MaxBlock

Min(a, b) == IF a <= b THEN a ELSE b

VARIABLES
    \* ---- Part I: backfillSource ----
    bfPc,               \* per source: the position of its backfillSource call
    source,             \* per source: [startBlock, blockLimit]
    latestBlockNumber,  \* per source: the latestBlockNumber argument
    isHotReload,        \* the isHotReload argument
    cachedIntervals,    \* per source: what cacheStore.getCachedIntervals returned
    cacheRead,          \* per source: whether getCachedIntervals was called
    logPushed,          \* per source: every task pushed onto the log queue, in order
    logQueue,           \* per source: the log tasks waiting
    logRunning,         \* per source: the log tasks in flight, <<task, attempt>>
    logFailed,          \* per source: a log task failed with its retries exhausted
    blockQueue,         \* per source: the block tasks waiting
    blockRunning,       \* per source: the block tasks in flight, <<block, attempt>>
    blockSeen,          \* per source: the block numbers ever enqueued (dedup)
    blockFailed,        \* per source: a block task failed with its retries exhausted
    stats,              \* the module-level stats object
    \* ---- Part II: run ----
    limits,             \* how many batches, realtime events and shutdown calls a run may see
    isKilled,           \* run's isKilled flag
    initialZero,        \* whether initialCheckpoint is the encoded zero checkpoint
    startPc,            \* the await start() is suspended at, or how it settled
    setupResult,        \* what processSetupEvents has returned to start(), or "none"
    startBatch,         \* the batch start() is processing: [nonEmpty, result]
    batchCount,         \* the batches sync.getEvents() has yielded
    startLog,           \* the calls start() has made, in order
    indexingStore,      \* the store installed by indexingService.setIndexingStore
    indexingKilled,     \* indexingService.kill() was called
    reloadableErrors,   \* how often onReloadableError was called
    sync,               \* [killCalls, killed, realtimeCalls]
    rtEvents,           \* the realtime events handed to onRealtimeEvent, in order
    rtQueue,            \* realtimeQueue: the ids of the events waiting
    rtWorkers,          \* realtimeQueue: the worker invocations in progress
    rtStarted,          \* realtimeQueue: isStarted
    rtLog,              \* the calls of the realtime worker: <<id, op, split, phase>>
    rtApplied,          \* the ids of the events whose worker invocation has ended
    shutdownPc,         \* per invocation of the shutdown function: its position
    dbUnlockCalls,      \* how often database.unlock was called
    \* ---- Part III: function applications ----
    call                \* the function applied, its arguments and its result

bfVars == <<bfPc, source, latestBlockNumber, isHotReload, cachedIntervals,
            cacheRead, logPushed, logQueue, logRunning, logFailed, blockQueue,
            blockRunning, blockSeen, blockFailed, stats>>

runVars == <<limits, isKilled, initialZero, startPc, setupResult, startBatch, batchCount,
             startLog, indexingStore, indexingKilled, reloadableErrors, sync,
             rtEvents, rtQueue, rtWorkers, rtStarted, rtLog, rtApplied,
             shutdownPc, dbUnlockCalls>>

vars == <<bfVars, runVars, call>>

(***************************************************************************)
(* Intervals are closed ranges <<start, end>> of block numbers.            *)
(***************************************************************************)
Intervals == {iv \in Blocks \X Blocks : iv[1] <= iv[2]}

BlocksOf(iv) == iv[1]..iv[2]

\* The interval lists cacheStore.getCachedIntervals can return: ordered,
\* non-overlapping, non-adjacent (the Interval Set invariant).
RECURSIVE CoalescedLists(_)
CoalescedLists(n) ==
    IF n = 0 THEN {<<>>}
    ELSE LET shorter == CoalescedLists(n - 1)
         IN shorter \cup
            {Append(l, iv) : l \in {x \in shorter : Len(x) = n - 1}, iv \in Intervals}

IsCoalesced(l) ==
    \A i \in 1..(Len(l) - 1) : l[i][2] + 1 < l[i + 1][1]

CachedIntervalLists == {l \in CoalescedLists(MaxCached) : IsCoalesced(l)}

\* The blocks of `target` that no interval of `covered` holds.
Uncovered(target, covered) ==
    {b \in BlocksOf(target) :
        \A i \in 1..Len(covered) : b \notin BlocksOf(covered[i])}

RECURSIVE SortedRuns(_, _)
SortedRuns(S, from) ==
    IF \A b \in S : b < from THEN <<>>
    ELSE LET a == CHOOSE x \in S : x >= from /\ \A y \in S : y >= from => x <= y
             e == CHOOSE x \in S : /\ x >= a
                                   /\ \A y \in a..x : y \in S
                                   /\ (x + 1) \notin S
         IN <<<<a, e>>>> \o SortedRuns(S, e + 1)

\* p1_excluding_all(interval, excluded): the sub-intervals of `interval`
\* that no excluded interval covers, in ascending order.
p1_excluding_all(interval, excluded) ==
    SortedRuns(Uncovered(interval, excluded), interval[1])

(***************************************************************************)
(* The chunking loop of backfillSource, lines 81-98.                       *)
(***************************************************************************)
\* A slip: fromBlock advances by one block, not past toBlock.
RECURSIVE ChunkLoopStepOne(_, _, _, _, _)
ChunkLoopStepOne(fromBlock, toBlock, endBlock, blockLimit, pushed) ==
    IF fromBlock < endBlock
    THEN ChunkLoopStepOne(fromBlock + 1,
                          Min(fromBlock + 1 + blockLimit, endBlock), endBlock,
                          blockLimit, Append(pushed, <<fromBlock, toBlock>>))
    ELSE pushed

RECURSIVE ChunkLoop(_, _, _, _, _)
ChunkLoop(fromBlock, toBlock, endBlock, blockLimit, pushed) ==
    IF fromBlock < endBlock
    THEN LET nextFrom == toBlock + 1
         IN ChunkLoop(nextFrom, Min(nextFrom + blockLimit, endBlock), endBlock,
                      blockLimit, Append(pushed, <<fromBlock, toBlock>>))
    ELSE pushed

ChunkInterval(blockInterval, blockLimit) ==
    ChunkLoop(blockInterval[1],
              Min(blockInterval[1] + blockLimit, blockInterval[2]),
              blockInterval[2], blockLimit, <<>>)

RECURSIVE ChunkAll(_, _)
ChunkAll(requiredBlockIntervals, blockLimit) ==
    IF requiredBlockIntervals = <<>> THEN <<>>
    ELSE ChunkInterval(Head(requiredBlockIntervals), blockLimit)
            \o ChunkAll(Tail(requiredBlockIntervals), blockLimit)

RequiredBlockIntervals(s) ==
    p1_excluding_all(<<source[s].startBlock, latestBlockNumber[s]>>,
                     cachedIntervals[s])


(***************************************************************************)
(* The two queues of a source.  A queue starts a pushed task at once while *)
(* fewer than QueueConcurrency tasks are in flight, and otherwise keeps it *)
(* waiting in arrival order.                                               *)
(***************************************************************************)
RECURSIVE Dispatch(_, _)
Dispatch(queue, running) ==
    IF queue # <<>> /\ Cardinality(running) < QueueConcurrency
    THEN Dispatch(Tail(queue), running \cup {<<Head(queue), 1>>})
    ELSE <<queue, running>>

RECURSIVE AscendingSeq(_)
AscendingSeq(S) ==
    IF S = {} THEN <<>>
    ELSE LET m == CHOOSE x \in S : \A y \in S : x <= y
         IN <<m>> \o AscendingSeq(S \ {m})

QueueIdle(queue, running) == queue = <<>> /\ running = {}

LogIdle(s) == QueueIdle(logQueue[s], logRunning[s])

BlockIdle(s) == QueueIdle(blockQueue[s], blockRunning[s])

(***************************************************************************)
(* stats: sourceCount, sourceTotalCount, the rows of requestPlanTable and  *)
(* syncProgressBar (how often start was called, and its total).            *)
(***************************************************************************)
StatsInit(total) ==
    [sourceCount |-> 0, sourceTotalCount |-> total, planRows |-> {},
     barStarted |-> 0, barTotal |-> 0]

\* Lines 64-79 and line 96: one row, one more source counted, the progress
\* bar started by the last source to arrive, and the total raised once for
\* every pushed task.
StatsAfterPlan(st, s, hot, nPushed) ==
    LET count == st.sourceCount + 1
        starts == ~hot /\ count = st.sourceTotalCount
    IN [st EXCEPT !.planRows = @ \cup {s},
                  !.sourceCount = count,
                  !.barStarted = IF starts THEN @ + 1 ELSE @,
                  !.barTotal = (IF starts THEN 0 ELSE @) + nPushed]

(***************************************************************************)
(* Part I, initial state: backfillSource has been called for every source  *)
(* of `active`, with arguments drawn from the bounded sets.                *)
(***************************************************************************)
SourceArgs == [startBlock : Blocks, blockLimit : 0..MaxBlockLimit]

BfInit(active) ==
    /\ bfPc = [s \in Sources |-> IF s \in active THEN "called" ELSE "absent"]
    /\ source \in [Sources -> SourceArgs]
    /\ \A s \in Sources \ active : source[s] = [startBlock |-> 0, blockLimit |-> 1]
    /\ latestBlockNumber \in [Sources -> Blocks]
    /\ \A s \in Sources \ active : latestBlockNumber[s] = 0
    /\ isHotReload \in BOOLEAN
    /\ cachedIntervals = [s \in Sources |-> <<>>]
    /\ cacheRead = [s \in Sources |-> FALSE]
    /\ logPushed = [s \in Sources |-> <<>>]
    /\ logQueue = [s \in Sources |-> <<>>]
    /\ logRunning = [s \in Sources |-> {}]
    /\ logFailed = [s \in Sources |-> FALSE]
    /\ blockQueue = [s \in Sources |-> <<>>]
    /\ blockRunning = [s \in Sources |-> {}]
    /\ blockSeen = [s \in Sources |-> {}]
    /\ blockFailed = [s \in Sources |-> FALSE]
    /\ stats = StatsInit(Cardinality(active))

(***************************************************************************)
(* backfillSource, lines 21-44: the queues are created, the start block is *)
(* checked against the latest block, and the cached intervals are asked    *)
(* for.                                                                    *)
(***************************************************************************)
\* A slip of the comparison: a start block equal to the latest block is refused.
StartAfterLatestOrEqual(s) == source[s].startBlock >= latestBlockNumber[s]

StartAfterLatest(s) == source[s].startBlock > latestBlockNumber[s]

BackfillSourceBegin(s) ==
    /\ bfPc[s] = "called"
    /\ IF StartAfterLatest(s)
       THEN /\ bfPc' = [bfPc EXCEPT ![s] = "rejectedConfig"]
            /\ UNCHANGED cacheRead
       ELSE /\ bfPc' = [bfPc EXCEPT ![s] = "awaitCache"]
            /\ cacheRead' = [cacheRead EXCEPT ![s] = TRUE]
    /\ UNCHANGED <<runVars, call>>
    /\ UNCHANGED <<source, latestBlockNumber, isHotReload, cachedIntervals,
                   logPushed, logQueue, logRunning, logFailed, blockQueue,
                   blockRunning, blockSeen, blockFailed, stats>>

(***************************************************************************)
(* backfillSource, lines 44-110 up to its next await: the cached intervals *)
(* arrive, the required intervals are computed, the statistics updated,    *)
(* every chunk pushed, and the log queue awaited unless it is idle.        *)
(***************************************************************************)
PlannedTasks(s, cached) ==
    ChunkAll(p1_excluding_all(<<source[s].startBlock, latestBlockNumber[s]>>,
                              cached),
             source[s].blockLimit)

\* Lines 100-110 when no log task was pushed: both queues are idle.
PcAfterPush(tasks) == IF tasks = <<>> THEN "resolved" ELSE "awaitLog"

BackfillSourcePlan(s) ==
    /\ bfPc[s] = "awaitCache"
    /\ \E cached \in CachedIntervalLists :
        LET tasks == PlannedTasks(s, cached)
            started == Dispatch(tasks, {})
        IN /\ cachedIntervals' = [cachedIntervals EXCEPT ![s] = cached]
           /\ logPushed' = [logPushed EXCEPT ![s] = tasks]
           /\ logQueue' = [logQueue EXCEPT ![s] = started[1]]
           /\ logRunning' = [logRunning EXCEPT ![s] = started[2]]
           /\ stats' = StatsAfterPlan(stats, s, isHotReload, Len(tasks))
           /\ bfPc' = [bfPc EXCEPT ![s] = PcAfterPush(tasks)]
    /\ UNCHANGED <<runVars, call>>
    /\ UNCHANGED <<source, latestBlockNumber, isHotReload, cacheRead, logFailed,
                   blockQueue, blockRunning, blockSeen, blockFailed>>

(***************************************************************************)
(* A log-backfill task ends: it enqueues a block task for every block its  *)
(* logs refer to that was not enqueued before, and the queue starts the    *)
(* next waiting task.                                                      *)
(***************************************************************************)
RefSets(task) ==
    {R \in SUBSET BlocksOf(task) : Cardinality(R) <= MaxRefs}

LogTaskDone(s) ==
    /\ \E r \in logRunning[s] : \E refs \in RefSets(r[1]) :
        LET fresh == refs \ blockSeen[s]
            nextLog == Dispatch(logQueue[s], logRunning[s] \ {r})
            nextBlock == Dispatch(blockQueue[s] \o AscendingSeq(fresh),
                                  blockRunning[s])
        IN /\ logQueue' = [logQueue EXCEPT ![s] = nextLog[1]]
           /\ logRunning' = [logRunning EXCEPT ![s] = nextLog[2]]
           /\ blockSeen' = [blockSeen EXCEPT ![s] = @ \cup fresh]
           /\ blockQueue' = [blockQueue EXCEPT ![s] = nextBlock[1]]
           /\ blockRunning' = [blockRunning EXCEPT ![s] = nextBlock[2]]
    /\ UNCHANGED <<runVars, call>>
    /\ UNCHANGED <<bfPc, source, latestBlockNumber, isHotReload, cachedIntervals,
                   cacheRead, logPushed, logFailed, blockFailed, stats>>

\* A transient RPC error: the task is tried again while attempts remain.
LogTaskRetry(s) ==
    /\ \E r \in logRunning[s] :
        /\ r[2] < MaxAttempts
        /\ logRunning' = [logRunning EXCEPT ![s] = (@ \ {r}) \cup {<<r[1], r[2] + 1>>}]
    /\ UNCHANGED <<runVars, call>>
    /\ UNCHANGED <<bfPc, source, latestBlockNumber, isHotReload, cachedIntervals,
                   cacheRead, logPushed, logQueue, logFailed, blockQueue,
                   blockRunning, blockSeen, blockFailed, stats>>

\* The last attempt fails: the task has failed for good.
LogTaskExhausted(s) ==
    /\ \E r \in logRunning[s] :
        /\ r[2] = MaxAttempts
        /\ LET nextLog == Dispatch(logQueue[s], logRunning[s] \ {r})
           IN /\ logQueue' = [logQueue EXCEPT ![s] = nextLog[1]]
              /\ logRunning' = [logRunning EXCEPT ![s] = nextLog[2]]
        /\ logFailed' = [logFailed EXCEPT ![s] = TRUE]
    /\ UNCHANGED <<runVars, call>>
    /\ UNCHANGED <<bfPc, source, latestBlockNumber, isHotReload, cachedIntervals,
                   cacheRead, logPushed, blockQueue, blockRunning, blockSeen,
                   blockFailed, stats>>

BlockTaskDone(s) ==
    /\ \E r \in blockRunning[s] :
        LET nextBlock == Dispatch(blockQueue[s], blockRunning[s] \ {r})
        IN /\ blockQueue' = [blockQueue EXCEPT ![s] = nextBlock[1]]
           /\ blockRunning' = [blockRunning EXCEPT ![s] = nextBlock[2]]
    /\ UNCHANGED <<runVars, call>>
    /\ UNCHANGED <<bfPc, source, latestBlockNumber, isHotReload, cachedIntervals,
                   cacheRead, logPushed, logQueue, logRunning, logFailed,
                   blockSeen, blockFailed, stats>>

BlockTaskRetry(s) ==
    /\ \E r \in blockRunning[s] :
        /\ r[2] < MaxAttempts
        /\ blockRunning' = [blockRunning EXCEPT ![s] = (@ \ {r}) \cup {<<r[1], r[2] + 1>>}]
    /\ UNCHANGED <<runVars, call>>
    /\ UNCHANGED <<bfPc, source, latestBlockNumber, isHotReload, cachedIntervals,
                   cacheRead, logPushed, logQueue, logRunning, logFailed,
                   blockQueue, blockSeen, blockFailed, stats>>

BlockTaskExhausted(s) ==
    /\ \E r \in blockRunning[s] :
        /\ r[2] = MaxAttempts
        /\ LET nextBlock == Dispatch(blockQueue[s], blockRunning[s] \ {r})
           IN /\ blockQueue' = [blockQueue EXCEPT ![s] = nextBlock[1]]
              /\ blockRunning' = [blockRunning EXCEPT ![s] = nextBlock[2]]
        /\ blockFailed' = [blockFailed EXCEPT ![s] = TRUE]
    /\ UNCHANGED <<runVars, call>>
    /\ UNCHANGED <<bfPc, source, latestBlockNumber, isHotReload, cachedIntervals,
                   cacheRead, logPushed, logQueue, logRunning, logFailed,
                   blockSeen, stats>>

(***************************************************************************)
(* backfillSource, lines 100-110: the completion signals of the queues.    *)
(* drained() settles when the queue has run empty, and carries the failure *)
(* of a task whose retries are exhausted.                                  *)
(***************************************************************************)
\* Lines 105-110, reached when the log queue has drained.
\* A slip: the block queue is not awaited after the log queue has drained.
PcAfterLogDrainedNoBlockWait(s) == "resolved"

PcAfterLogDrained(s) == IF BlockIdle(s) THEN "resolved" ELSE "awaitBlock"

LogBackfillDrained(s) ==
    /\ bfPc[s] = "awaitLog"
    /\ ~logFailed[s]
    /\ LogIdle(s)
    /\ bfPc' = [bfPc EXCEPT ![s] = PcAfterLogDrained(s)]
    /\ UNCHANGED <<runVars, call>>
    /\ UNCHANGED <<source, latestBlockNumber, isHotReload, cachedIntervals,
                   cacheRead, logPushed, logQueue, logRunning, logFailed,
                   blockQueue, blockRunning, blockSeen, blockFailed, stats>>

LogBackfillRejected(s) ==
    /\ bfPc[s] = "awaitLog"
    /\ logFailed[s]
    /\ bfPc' = [bfPc EXCEPT ![s] = "rejectedTask"]
    /\ UNCHANGED <<runVars, call>>
    /\ UNCHANGED <<source, latestBlockNumber, isHotReload, cachedIntervals,
                   cacheRead, logPushed, logQueue, logRunning, logFailed,
                   blockQueue, blockRunning, blockSeen, blockFailed, stats>>

BlockBackfillDrained(s) ==
    /\ bfPc[s] = "awaitBlock"
    /\ ~blockFailed[s]
    /\ BlockIdle(s)
    /\ bfPc' = [bfPc EXCEPT ![s] = "resolved"]
    /\ UNCHANGED <<runVars, call>>
    /\ UNCHANGED <<source, latestBlockNumber, isHotReload, cachedIntervals,
                   cacheRead, logPushed, logQueue, logRunning, logFailed,
                   blockQueue, blockRunning, blockSeen, blockFailed, stats>>

BlockBackfillRejected(s) ==
    /\ bfPc[s] = "awaitBlock"
    /\ blockFailed[s]
    /\ bfPc' = [bfPc EXCEPT ![s] = "rejectedTask"]
    /\ UNCHANGED <<runVars, call>>
    /\ UNCHANGED <<source, latestBlockNumber, isHotReload, cachedIntervals,
                   cacheRead, logPushed, logQueue, logRunning, logFailed,
                   blockQueue, blockRunning, blockSeen, blockFailed, stats>>


(***************************************************************************)
(* Part II: run.                                                           *)
(*                                                                         *)
(* Every await of the code is a point where another task may run: an       *)
(* action is the code from one await to the next.  startLog and rtLog      *)
(* record the calls made.                                                  *)
(***************************************************************************)
Limits == [batches : 0..MaxBatches,
           events : 0..MaxRealtimeEvents,
           shutdowns : 0..(MaxShutdownCalls + MaxRepeatedShutdowns)]

ShutdownCalls == 1..(MaxShutdownCalls + MaxRepeatedShutdowns)

\* A realtime event: its type and, for a block event, the number of splits
\* splitEvents(event.events) yields.
RealtimeEvents ==
    [type : {"block"}, splits : 0..MaxSplits]
        \cup [type : {"reorg", "finalize"}, splits : {0}]

\* What processSetupEvents and processEvents can return: "killed" only once
\* indexingService.kill() has been called.
Results == {"success", "error"} \cup (IF indexingKilled THEN {"killed"} ELSE {})

NoBatch == [nonEmpty |-> FALSE, result |-> "none"]

\* Line 294: start() runs up to its first await when run calls it.
StartFirstPc(zero) == IF zero THEN "processSetupEvents" ELSE "getEvents"

RunInit(lim) ==
    /\ limits = lim
    /\ isKilled = FALSE
    /\ initialZero \in BOOLEAN
    /\ startPc = StartFirstPc(initialZero)
    /\ setupResult = "none"
    /\ startBatch = NoBatch
    /\ batchCount = 0
    /\ startLog = <<StartFirstPc(initialZero)>>
    /\ indexingStore = "historical"
    /\ indexingKilled = FALSE
    /\ reloadableErrors = 0
    /\ sync = [killCalls |-> 0, killed |-> FALSE, realtimeCalls |-> 0]
    /\ rtEvents = <<>>
    /\ rtQueue = <<>>
    /\ rtWorkers = {}
    /\ rtStarted = TRUE
    /\ rtLog = <<>>
    /\ rtApplied = <<>>
    /\ shutdownPc = [i \in ShutdownCalls |-> "none"]
    /\ dbUnlockCalls = 0

\* run has not been called.
RunAbsent ==
    /\ RunInit([batches |-> 0, events |-> 0, shutdowns |-> 0])
    /\ initialZero = FALSE

runConfig == <<limits, initialZero>>

realtimeVars == <<rtEvents, rtQueue, rtWorkers, rtStarted, rtLog, rtApplied>>

(***************************************************************************)
(* start(), lines 142-292.                                                 *)
(***************************************************************************)
\* start() makes the call `op` and is suspended at it.
StartCall(op) ==
    /\ startPc' = op
    /\ startLog' = Append(startLog, op)

\* start() settles: it returns or it throws.
StartSettle(how) ==
    /\ startPc' = how
    /\ UNCHANGED startLog

\* A slip: a killed setup is not told from a successful one.
StartSetupDoneKilledGoesOn ==
    /\ startPc = "processSetupEvents"
    /\ \E result \in Results :
        /\ setupResult' = result
        /\ CASE result = "error" ->
                StartSettle("returned") /\ reloadableErrors' = reloadableErrors + 1
             [] OTHER ->
                StartCall("getEvents") /\ UNCHANGED reloadableErrors
    /\ UNCHANGED <<bfVars, call>>
    /\ UNCHANGED <<runConfig, isKilled, startBatch, batchCount, indexingStore,
                   indexingKilled, sync, realtimeVars, shutdownPc, dbUnlockCalls>>

\* Lines 145-155: processSetupEvents has returned.
StartSetupDone ==
    /\ startPc = "processSetupEvents"
    /\ \E result \in Results :
        /\ setupResult' = result
        /\ CASE result = "killed" ->
                StartSettle("returned") /\ UNCHANGED reloadableErrors
             [] result = "error" ->
                StartSettle("returned") /\ reloadableErrors' = reloadableErrors + 1
             [] OTHER ->
                StartCall("getEvents") /\ UNCHANGED reloadableErrors
    /\ UNCHANGED <<bfVars, call>>
    /\ UNCHANGED <<runConfig, isKilled, startBatch, batchCount, indexingStore,
                   indexingKilled, sync, realtimeVars, shutdownPc, dbUnlockCalls>>

\* Lines 162-166: sync.getEvents() yields a batch, and handleEvents is
\* called on it (which calls processEvents unless the batch is empty).
StartGetEventsYield ==
    /\ startPc = "getEvents"
    /\ batchCount < limits.batches
    /\ \E nonEmpty \in BOOLEAN :
        /\ startBatch' = [nonEmpty |-> nonEmpty, result |-> "none"]
        /\ StartCall(IF nonEmpty THEN "processEvents" ELSE "handleEvents")
    /\ batchCount' = batchCount + 1
    /\ UNCHANGED <<bfVars, call>>
    /\ UNCHANGED <<runConfig, setupResult, isKilled, indexingStore, indexingKilled,
                   reloadableErrors, sync, realtimeVars, shutdownPc, dbUnlockCalls>>

\* Lines 232-246: sync.getEvents() is exhausted; start() returns if isKilled
\* is set and otherwise begins the final flush.
StartGetEventsEnd ==
    /\ startPc = "getEvents"
    /\ IF isKilled THEN StartSettle("returned") ELSE StartCall("finalize(zero)")
    /\ UNCHANGED <<bfVars, call>>
    /\ UNCHANGED <<runConfig, setupResult, isKilled, startBatch, batchCount, indexingStore,
                   indexingKilled, reloadableErrors, sync, realtimeVars,
                   shutdownPc, dbUnlockCalls>>

\* An awaited call of start() throws: sync.getEvents(), a flush or
\* sync.startRealtime().  start() has no try block: its promise rejects.
StartThrows ==
    /\ startPc \in {"getEvents", "flush", "finalFlush", "startRealtime"}
    /\ StartSettle("threw")
    /\ UNCHANGED <<bfVars, call>>
    /\ UNCHANGED <<runConfig, setupResult, isKilled, startBatch, batchCount, indexingStore,
                   indexingKilled, reloadableErrors, sync, realtimeVars,
                   shutdownPc, dbUnlockCalls>>

\* Lines 166-225: handleEvents has returned; after getAppProgress the
\* indexing store is flushed if its cache is full (or the dev server's
\* timer is due) and the batch is not empty, and else the status is set.
StartHandleEventsDone ==
    /\ startPc \in {"processEvents", "handleEvents"}
    /\ \E result \in (IF startBatch.nonEmpty THEN Results ELSE {"success"}),
          flushDue \in BOOLEAN :
        /\ startBatch' = [startBatch EXCEPT !.result = result]
        /\ IF flushDue /\ startBatch.nonEmpty
           THEN StartCall("flush:finalize(zero)")
           ELSE StartCall("setStatus")
    /\ UNCHANGED <<bfVars, call>>
    /\ UNCHANGED <<runConfig, setupResult, isKilled, batchCount, indexingStore, indexingKilled,
                   reloadableErrors, sync, realtimeVars, shutdownPc, dbUnlockCalls>>

\* A slip: the in-loop flush leaves out database.complete.
AfterInLoopNoComplete(op) ==
    CASE op = "flush:finalize(zero)" -> "flush"
      [] op = "flush" -> "flush:finalize(last)"
      [] op = "flush:complete(zero)" -> "flush:finalize(last)"
      [] op = "flush:finalize(last)" -> "setStatus"

\* Lines 207-225: the calls of the in-loop flush, one after the other.
AfterInLoop(op) ==
    CASE op = "flush:finalize(zero)" -> "flush"
      [] op = "flush" -> "flush:complete(zero)"
      [] op = "flush:complete(zero)" -> "flush:finalize(last)"
      [] op = "flush:finalize(last)" -> "setStatus"

StartFlushStep ==
    /\ startPc \in {"flush:finalize(zero)", "flush", "flush:complete(zero)",
                    "flush:finalize(last)"}
    /\ StartCall(AfterInLoop(startPc))
    /\ UNCHANGED <<bfVars, call>>
    /\ UNCHANGED <<runConfig, setupResult, isKilled, startBatch, batchCount, indexingStore,
                   indexingKilled, reloadableErrors, sync, realtimeVars,
                   shutdownPc, dbUnlockCalls>>

\* A slip: the error is reported, and the loop goes on.
StartBatchStatusDoneNoReturn ==
    /\ startPc = "setStatus"
    /\ CASE startBatch.result = "killed" ->
                StartSettle("returned") /\ UNCHANGED reloadableErrors
         [] startBatch.result = "error" ->
                StartCall("getEvents") /\ reloadableErrors' = reloadableErrors + 1
         [] OTHER ->
                StartCall("getEvents") /\ UNCHANGED reloadableErrors
    /\ UNCHANGED <<bfVars, call>>
    /\ UNCHANGED <<runConfig, setupResult, isKilled, startBatch, batchCount, indexingStore,
                   indexingKilled, sync, realtimeVars, shutdownPc, dbUnlockCalls>>

\* Lines 225-232: the status is stored; the batch's result ends start() or
\* the next batch is asked for.
StartBatchStatusDone ==
    /\ startPc = "setStatus"
    /\ CASE startBatch.result = "killed" ->
                StartSettle("returned") /\ UNCHANGED reloadableErrors
         [] startBatch.result = "error" ->
                StartSettle("returned") /\ reloadableErrors' = reloadableErrors + 1
         [] OTHER ->
                StartCall("getEvents") /\ UNCHANGED reloadableErrors
    /\ UNCHANGED <<bfVars, call>>
    /\ UNCHANGED <<runConfig, setupResult, isKilled, startBatch, batchCount, indexingStore,
                   indexingKilled, sync, realtimeVars, shutdownPc, dbUnlockCalls>>

\* A slip: the indexes are not created before the triggers.
AfterFinalNoIndexes(op) ==
    CASE op = "finalize(zero)" -> "finalFlush"
      [] op = "finalFlush" -> "complete(zero)"
      [] op = "complete(zero)" -> "finalize(finalized)"
      [] op = "finalize(finalized)" -> "createTriggers"
      [] op = "createIndexes" -> "createTriggers"

\* Lines 246-274: the calls of the final flush, then createIndexes and
\* createTriggers, one after the other.
AfterFinal(op) ==
    CASE op = "finalize(zero)" -> "finalFlush"
      [] op = "finalFlush" -> "complete(zero)"
      [] op = "complete(zero)" -> "finalize(finalized)"
      [] op = "finalize(finalized)" -> "createIndexes"
      [] op = "createIndexes" -> "createTriggers"

StartFinalStep ==
    /\ startPc \in {"finalize(zero)", "finalFlush", "complete(zero)",
                    "finalize(finalized)", "createIndexes"}
    /\ StartCall(AfterFinal(startPc))
    /\ UNCHANGED <<bfVars, call>>
    /\ UNCHANGED <<runConfig, setupResult, isKilled, startBatch, batchCount, indexingStore,
                   indexingKilled, reloadableErrors, sync, realtimeVars,
                   shutdownPc, dbUnlockCalls>>

\* Lines 274-284: the triggers exist; the realtime indexing store is
\* installed and sync.startRealtime() is called.
StartRealtime ==
    /\ startPc = "createTriggers"
    /\ indexingStore' = "realtime"
    /\ sync' = [sync EXCEPT !.realtimeCalls = @ + 1]
    /\ StartCall("startRealtime")
    /\ UNCHANGED <<bfVars, call>>
    /\ UNCHANGED <<runConfig, setupResult, isKilled, startBatch, batchCount, indexingKilled,
                   reloadableErrors, realtimeVars, shutdownPc, dbUnlockCalls>>

\* Lines 284-286: sync.startRealtime() has returned; the status is set.
StartRealtimeDone ==
    /\ startPc = "startRealtime"
    /\ StartCall("finalStatus")
    /\ UNCHANGED <<bfVars, call>>
    /\ UNCHANGED <<runConfig, setupResult, isKilled, startBatch, batchCount, indexingStore,
                   indexingKilled, reloadableErrors, sync, realtimeVars,
                   shutdownPc, dbUnlockCalls>>

\* Lines 286-292: start() returns.
StartReturns ==
    /\ startPc = "finalStatus"
    /\ StartSettle("returned")
    /\ UNCHANGED <<bfVars, call>>
    /\ UNCHANGED <<runConfig, setupResult, isKilled, startBatch, batchCount, indexingStore,
                   indexingKilled, reloadableErrors, sync, realtimeVars,
                   shutdownPc, dbUnlockCalls>>

StartSettled == startPc \in {"returned", "threw"}


(***************************************************************************)
(* The realtime queue, lines 81-121: createQueue with initialStart: true   *)
(* and concurrency: 1.  A worker invocation is [id, pc, k]: the event, the *)
(* call it is suspended at, and the split it is at.                        *)
(***************************************************************************)
\* A slip: the queue is given room for a second invocation.
RealtimeConcurrencyTwo == 1 + 1

\* Line 84: concurrency: 1.
RealtimeConcurrency == 1

LogEntry(id, op, k, phase) == <<id, op, k, phase>>

\* Lines 85-118: the worker runs up to its first await.
WorkerFirstCall(id, event) ==
    CASE event.type = "block" ->
            IF event.splits = 0
            THEN [id |-> id, pc |-> "setStatus", k |-> 0]
            ELSE [id |-> id, pc |-> "processEvents", k |-> 1]
      [] event.type = "reorg" -> [id |-> id, pc |-> "removeTriggers", k |-> 0]
      [] event.type = "finalize" -> [id |-> id, pc |-> "finalize", k |-> 0]

\* The queue's next(): while it is started and fewer than `concurrency`
\* invocations are pending, the first waiting event is handed to the worker.
RECURSIVE QueueNext(_, _, _, _, _)
QueueNext(started, events, queue, workers, log) ==
    IF started /\ queue # <<>> /\ Cardinality(workers) < RealtimeConcurrency
    THEN LET w == WorkerFirstCall(Head(queue), events[Head(queue)])
         IN QueueNext(started, events, Tail(queue), workers \cup {w},
                      Append(log, LogEntry(w.id, w.pc, w.k, "call")))
    ELSE <<queue, workers, log>>

\* A slip: an event that arrives while the worker is busy is not queued.
OnRealtimeEventDropWhenBehind(queue, pending, id) ==
    IF pending > 0 THEN queue ELSE Append(queue, id)

\* Lines 66-68: onRealtimeEvent adds the event to the realtime queue,
\* whatever waits in it and however many invocations are pending.
OnRealtimeEventAdd(queue, pending, id) == Append(queue, id)

\* sync hands a realtime event to onRealtimeEvent: it does so once
\* startRealtime was called and until kill() has resolved.
OnRealtimeEvent ==
    /\ Len(rtEvents) < limits.events
    /\ sync.realtimeCalls > 0
    /\ ~sync.killed
    /\ \E event \in RealtimeEvents :
        LET id == Len(rtEvents) + 1
            events == Append(rtEvents, event)
            next == QueueNext(rtStarted, events, OnRealtimeEventAdd(rtQueue, Cardinality(rtWorkers), id),
                              rtWorkers, rtLog)
        IN /\ rtEvents' = events
           /\ rtQueue' = next[1]
           /\ rtWorkers' = next[2]
           /\ rtLog' = next[3]
    /\ UNCHANGED <<bfVars, call>>
    /\ UNCHANGED <<runConfig, setupResult, isKilled, startPc, startBatch, batchCount, startLog,
                   indexingStore, indexingKilled, reloadableErrors, sync,
                   rtStarted, rtApplied, shutdownPc, dbUnlockCalls>>

\* The queue's next(), scheduled with process.nextTick when an invocation
\* has ended.
RealtimeQueueNext ==
    /\ rtStarted /\ rtQueue # <<>> /\ Cardinality(rtWorkers) < RealtimeConcurrency
    /\ LET next == QueueNext(rtStarted, rtEvents, rtQueue, rtWorkers, rtLog)
       IN /\ rtQueue' = next[1]
          /\ rtWorkers' = next[2]
          /\ rtLog' = next[3]
    /\ UNCHANGED <<bfVars, call>>
    /\ UNCHANGED <<runConfig, setupResult, isKilled, startPc, startBatch, batchCount, startLog,
                   indexingStore, indexingKilled, reloadableErrors, sync,
                   rtEvents, rtStarted, rtApplied, shutdownPc, dbUnlockCalls>>

\* The awaited call of invocation w has returned and w makes its next call.
WorkerAdvance(w, op, k) ==
    /\ rtWorkers' = (rtWorkers \ {w}) \cup {[id |-> w.id, pc |-> op, k |-> k]}
    /\ rtLog' = rtLog \o <<LogEntry(w.id, w.pc, w.k, "done"),
                           LogEntry(w.id, op, k, "call")>>
    /\ UNCHANGED rtApplied

\* The awaited call of invocation w has returned and the worker returns.
WorkerFinish(w) ==
    /\ rtWorkers' = rtWorkers \ {w}
    /\ rtLog' = Append(rtLog, LogEntry(w.id, w.pc, w.k, "done"))
    /\ rtApplied' = Append(rtApplied, w.id)

\* Lines 91-99: handleEvents has returned for a split; an error is reported
\* and database.complete is called with the split's checkpoint.
WorkerProcessEventsDone ==
    /\ \E w \in rtWorkers :
        /\ w.pc = "processEvents"
        /\ \E result \in Results :
            /\ reloadableErrors' =
                  IF result = "error" THEN reloadableErrors + 1 ELSE reloadableErrors
            /\ WorkerAdvance(w, "complete", w.k)
    /\ UNCHANGED <<bfVars, call>>
    /\ UNCHANGED <<runConfig, setupResult, isKilled, startPc, startBatch, batchCount, startLog,
                   indexingStore, indexingKilled, sync, rtEvents, rtQueue,
                   rtStarted, shutdownPc, dbUnlockCalls>>

\* Lines 90-102: database.complete has returned; the next split is handled,
\* or after the last one the status is set.
WorkerCompleteDone ==
    /\ \E w \in rtWorkers :
        /\ w.pc = "complete"
        /\ IF w.k < rtEvents[w.id].splits
           THEN WorkerAdvance(w, "processEvents", w.k + 1)
           ELSE WorkerAdvance(w, "setStatus", 0)
    /\ UNCHANGED <<bfVars, call>>
    /\ UNCHANGED <<runConfig, setupResult, isKilled, startPc, startBatch, batchCount, startLog,
                   indexingStore, indexingKilled, reloadableErrors, sync, rtEvents,
                   rtQueue, rtStarted, shutdownPc, dbUnlockCalls>>

\* Lines 106-109: the calls of the reorg case, one after the other.
\* A slip: the triggers are created again before the revert.
AfterReorgRevertLate(op) ==
    CASE op = "removeTriggers" -> "createTriggers"
      [] op = "revert" -> "createTriggers"

AfterReorg(op) ==
    CASE op = "removeTriggers" -> "revert"
      [] op = "revert" -> "createTriggers"

WorkerReorgStep ==
    /\ \E w \in rtWorkers :
        /\ w.pc \in {"removeTriggers", "revert"}
        /\ WorkerAdvance(w, AfterReorg(w.pc), 0)
    /\ UNCHANGED <<bfVars, call>>
    /\ UNCHANGED <<runConfig, setupResult, isKilled, startPc, startBatch, batchCount, startLog,
                   indexingStore, indexingKilled, reloadableErrors, sync, rtEvents,
                   rtQueue, rtStarted, shutdownPc, dbUnlockCalls>>

\* Lines 102-115: the last call of an event's case has returned:
\* metadataStore.setStatus of a block event, database.createTriggers of a
\* reorg event, database.finalize of a finalize event.
WorkerReturns ==
    /\ \E w \in rtWorkers :
        /\ w.pc \in {"setStatus", "createTriggers", "finalize"}
        /\ WorkerFinish(w)
    /\ UNCHANGED <<bfVars, call>>
    /\ UNCHANGED <<runConfig, setupResult, isKilled, startPc, startBatch, batchCount, startLog,
                   indexingStore, indexingKilled, reloadableErrors, sync, rtEvents,
                   rtQueue, rtStarted, shutdownPc, dbUnlockCalls>>

(***************************************************************************)
(* The shutdown function, lines 296-305.                                   *)
(***************************************************************************)
\* Lines 297-299: isKilled is set, the indexing service and sync are killed.
ShutdownInvoke(i) ==
    /\ i <= limits.shutdowns
    /\ shutdownPc[i] = "none"
    /\ IF i = 1 THEN TRUE ELSE shutdownPc[i - 1] # "none"
    /\ isKilled' = TRUE
    /\ indexingKilled' = TRUE
    /\ sync' = [sync EXCEPT !.killCalls = @ + 1]
    /\ shutdownPc' = [shutdownPc EXCEPT ![i] = "sync.kill"]
    /\ UNCHANGED <<bfVars, call>>
    /\ UNCHANGED <<runConfig, setupResult, startPc, startBatch, batchCount, startLog,
                   indexingStore, reloadableErrors, realtimeVars, dbUnlockCalls>>

\* Lines 299-302: sync.kill() has resolved; the queue is paused and
\* cleared, and onIdle() is awaited.
ShutdownKillDone(i) ==
    /\ shutdownPc[i] = "sync.kill"
    /\ sync' = [sync EXCEPT !.killed = TRUE]
    /\ rtStarted' = FALSE
    /\ rtQueue' = <<>>
    /\ shutdownPc' = [shutdownPc EXCEPT ![i] = "onIdle"]
    /\ UNCHANGED <<bfVars, call>>
    /\ UNCHANGED <<runConfig, setupResult, isKilled, startPc, startBatch, batchCount, startLog,
                   indexingStore, indexingKilled, reloadableErrors, rtEvents,
                   rtWorkers, rtLog, rtApplied, dbUnlockCalls>>

\* onIdle(): no event waits and no worker invocation is pending.
RealtimeQueueIdle == rtQueue = <<>> /\ rtWorkers = {}

\* Lines 302-303: the queue is idle; startPromise is awaited.
ShutdownIdle(i) ==
    /\ shutdownPc[i] = "onIdle"
    /\ RealtimeQueueIdle
    /\ shutdownPc' = [shutdownPc EXCEPT ![i] = "startPromise"]
    /\ UNCHANGED <<bfVars, call>>
    /\ UNCHANGED <<runConfig, setupResult, isKilled, startPc, startBatch, batchCount, startLog,
                   indexingStore, indexingKilled, reloadableErrors, sync,
                   realtimeVars, dbUnlockCalls>>

\* A slip: startPromise is not awaited before the lock is released.
StartPromiseNotAwaited == startPc # "threw"

\* Line 303: `await startPromise` continues once start() has returned.
StartPromiseResolved == startPc = "returned"

\* Lines 303-304: start() has returned; database.unlock() is called.
ShutdownStartReturned(i) ==
    /\ shutdownPc[i] = "startPromise"
    /\ StartPromiseResolved
    /\ dbUnlockCalls' = dbUnlockCalls + 1
    /\ shutdownPc' = [shutdownPc EXCEPT ![i] = "unlock"]
    /\ UNCHANGED <<bfVars, call>>
    /\ UNCHANGED <<runConfig, setupResult, isKilled, startPc, startBatch, batchCount, startLog,
                   indexingStore, indexingKilled, reloadableErrors, sync,
                   realtimeVars>>

\* Line 303: start() threw; `await startPromise` throws and the shutdown
\* function rejects.
ShutdownStartThrew(i) ==
    /\ shutdownPc[i] = "startPromise"
    /\ startPc = "threw"
    /\ shutdownPc' = [shutdownPc EXCEPT ![i] = "rejected"]
    /\ UNCHANGED <<bfVars, call>>
    /\ UNCHANGED <<runConfig, setupResult, isKilled, startPc, startBatch, batchCount, startLog,
                   indexingStore, indexingKilled, reloadableErrors, sync,
                   realtimeVars, dbUnlockCalls>>

\* Lines 304-305: database.unlock() has returned; the function resolves.
ShutdownResolves(i) ==
    /\ shutdownPc[i] = "unlock"
    /\ shutdownPc' = [shutdownPc EXCEPT ![i] = "resolved"]
    /\ UNCHANGED <<bfVars, call>>
    /\ UNCHANGED <<runConfig, setupResult, isKilled, startPc, startBatch, batchCount, startLog,
                   indexingStore, indexingKilled, reloadableErrors, sync,
                   realtimeVars, dbUnlockCalls>>

RunNext ==
    \/ StartSetupDone
    \/ StartGetEventsYield
    \/ StartGetEventsEnd
    \/ StartThrows
    \/ StartHandleEventsDone
    \/ StartFlushStep
    \/ StartBatchStatusDone
    \/ StartFinalStep
    \/ StartRealtime
    \/ StartRealtimeDone
    \/ StartReturns
    \/ OnRealtimeEvent
    \/ RealtimeQueueNext
    \/ WorkerProcessEventsDone
    \/ WorkerCompleteDone
    \/ WorkerReorgStep
    \/ WorkerReturns
    \/ \E i \in ShutdownCalls :
        \/ ShutdownInvoke(i)
        \/ ShutdownKillDone(i)
        \/ ShutdownIdle(i)
        \/ ShutdownStartReturned(i)
        \/ ShutdownStartThrew(i)
        \/ ShutdownResolves(i)

(***************************************************************************)
(* Part III: the filter matchers.                                          *)
(*                                                                         *)
(* A hex string is [hex, upper]: its value and whether it holds upper-case *)
(* digits (a checksummed address).  Filters hold lower-case strings: the   *)
(* build lower-cases addresses, and selectors are lower-case hashes.       *)
(* A block number is the sequence of its hex digits.                       *)
(***************************************************************************)
NoCall == call = [op |-> "none"]

Hex(name, upper) == [hex |-> name, upper |-> upper]

\* String.prototype.toLowerCase / toLowerCase of @/utils/lowercase.
toLowerCase(value) == [value EXCEPT !.upper = FALSE]

\* null in a fragment; undefined for a topic the log does not have.
NullHex == Hex("null", FALSE)
UndefinedHex == Hex("undefined", FALSE)

\* viem's hexToNumber.
RECURSIVE hexToNumber(_)
hexToNumber(hex) ==
    IF hex = <<>> THEN 0
    ELSE 16 * hexToNumber(SubSeq(hex, 1, Len(hex) - 1)) + hex[Len(hex)]

\* The quantity encoding of the RPC: the hex digits of n, without padding.
RECURSIVE numberToHex(_)
numberToHex(n) ==
    IF n < 16 THEN <<n>> ELSE Append(numberToHex(n \div 16), n % 16)

\* A slip: a block equal to fromBlock is taken as out of range.
BlockRangeExcludingFrom(filter, block) ==
    ~ \/ hexToNumber(block.number) <= filter.fromBlock
      \/ /\ filter.toBlock # <<>>
         /\ hexToNumber(block.number) > filter.toBlock[1]

\* The range check every matcher begins with (lines 150-155, 203-208,
\* 244-249, 292-297, 334-339): the block is neither below fromBlock nor
\* above toBlock; toBlock is <<>> when undefined and <<n>> otherwise.
InBlockRange(filter, block) ==
    ~ \/ hexToNumber(block.number) < filter.fromBlock
      \/ /\ filter.toBlock # <<>>
         /\ hexToNumber(block.number) > filter.toBlock[1]

\* An address or topic of a filter: undefined / null, one value, a list of
\* values, or (addresses only) a factory.
Undefined == [kind |-> "undefined"]
Literal(value) == [kind |-> "literal", value |-> value]
List(values) == [kind |-> "list", values |-> values]
Factory(address) == [kind |-> "factory", address |-> address]

isAddressFactory(address) == address.kind = "factory"

Range(seq) == {seq[i] : i \in 1..Len(seq)}

\* What a fragment holds for one field of the filter: every value of a
\* list, the value itself, or null when the field is undefined; for a
\* factory, the address of the factory contract.
FragmentValues(field) ==
    CASE field.kind = "undefined" -> {NullHex}
      [] field.kind = "literal" -> {field.value}
      [] field.kind = "list" -> Range(field.values)
      [] field.kind = "factory" -> {field.address}

\* buildLogFilterFragments: one fragment per combination of an address and
\* a value for each topic.
buildLogFilterFragments(filter) ==
    {[address |-> a, topic0 |-> t0, topic1 |-> t1, topic2 |-> t2, topic3 |-> t3] :
        a \in FragmentValues(filter.address),
        t0 \in FragmentValues(filter.topic0),
        t1 \in FragmentValues(filter.topic1),
        t2 \in FragmentValues(filter.topic2),
        t3 \in FragmentValues(filter.topic3)}

\* buildTraceFilterFragments, buildTransferFilterFragments and
\* buildTransactionFilterFragments: one fragment per combination of a
\* sender and a recipient.
buildAddressPairFragments(filter) ==
    {[fromAddress |-> f, toAddress |-> t] :
        f \in FragmentValues(filter.fromAddress),
        t \in FragmentValues(filter.toAddress)}

\* log.topics[i]?.toLowerCase(), with i counted from 0.
TopicAt(log, i) ==
    IF i + 1 <= Len(log.topics) THEN toLowerCase(log.topics[i + 1])
    ELSE UndefinedHex

\* A slip: the log's topic is compared as it is.
TopicMismatchCaseSensitive(topic, log, i) ==
    /\ topic # NullHex
    /\ topic # (IF i + 1 <= Len(log.topics) THEN log.topics[i + 1]
                ELSE UndefinedHex)

\* Lines 158-177: a fragment's topic is set and differs from the log's.
TopicMismatch(topic, log, i) ==
    /\ topic # NullHex
    /\ topic # TopicAt(log, i)

\* A slip: the log's address is compared also for a factory.
LogAddressMismatchAlsoFactory(filter, fragment, log) ==
    /\ fragment.address # NullHex
    /\ fragment.address # toLowerCase(log.address)

\* Lines 179-184: the filter's address is no factory, and the fragment's
\* address is set and differs from the log's.
LogAddressMismatch(filter, fragment, log) ==
    /\ isAddressFactory(filter.address) = FALSE
    /\ fragment.address # NullHex
    /\ fragment.address # toLowerCase(log.address)

\* Lines 140-188.
isLogFilterMatched(filter, block, log) ==
    IF ~InBlockRange(filter, block) THEN FALSE
    ELSE \E fragment \in buildLogFilterFragments(filter) :
            /\ ~TopicMismatch(fragment.topic0, log, 0)
            /\ ~TopicMismatch(fragment.topic1, log, 1)
            /\ ~TopicMismatch(fragment.topic2, log, 2)
            /\ ~TopicMismatch(fragment.topic3, log, 3)
            /\ ~LogAddressMismatch(filter, fragment, log)

\* Lines 193-229.
isCallTraceFilterMatched(filter, block, callTrace) ==
    IF ~InBlockRange(filter, block) THEN FALSE
    ELSE \E fragment \in buildAddressPairFragments(filter) :
            /\ ~ /\ fragment.fromAddress # NullHex
                 /\ fragment.fromAddress # toLowerCase(callTrace.action.from)
            /\ ~ /\ isAddressFactory(filter.toAddress) = FALSE
                 /\ fragment.toAddress # NullHex
                 /\ fragment.toAddress # toLowerCase(callTrace.action.to)

\* A slip: a trace with input data is let through.
TransferInputAny(callTrace) == FALSE

\* Lines 270-273: the call trace carries input data, so it is no native
\* transfer.
TransferInputMismatch(callTrace) == callTrace.action.input # "0x"

\* Lines 234-277.  Both address checks are guarded by filter.toAddress.
isTransferFilterMatched(filter, block, callTrace) ==
    IF ~InBlockRange(filter, block) THEN FALSE
    ELSE \E fragment \in buildAddressPairFragments(filter) :
            /\ ~ /\ isAddressFactory(filter.toAddress) = FALSE
                 /\ fragment.fromAddress # NullHex
                 /\ fragment.fromAddress # toLowerCase(callTrace.action.from)
            /\ ~ /\ isAddressFactory(filter.toAddress) = FALSE
                 /\ fragment.toAddress # NullHex
                 /\ fragment.toAddress # toLowerCase(callTrace.action.to)
            /\ ~TransferInputMismatch(callTrace)

\* Lines 282-321.  transaction.to is <<>> when null and <<address>> otherwise.
isTransactionFilterMatched(filter, block, transaction) ==
    IF ~InBlockRange(filter, block) THEN FALSE
    ELSE \E fragment \in buildAddressPairFragments(filter) :
            /\ ~ /\ isAddressFactory(filter.toAddress) = FALSE
                 /\ fragment.fromAddress # NullHex
                 /\ fragment.fromAddress # toLowerCase(transaction.from)
            /\ ~ /\ isAddressFactory(filter.toAddress) = FALSE
                 /\ fragment.toAddress # NullHex
                 /\ \/ transaction.to = <<>>
                    \/ fragment.toAddress # toLowerCase(transaction.to[1])

Abs(n) == IF n < 0 THEN -n ELSE n

\* The % of JavaScript: the remainder takes the sign of the dividend.
JsRem(a, b) == IF a < 0 THEN -((-a) % Abs(b)) ELSE a % Abs(b)

\* A slip: the offset of the filter is not subtracted.
BlockFilterIgnoringOffset(filter, block) ==
    IF ~InBlockRange(filter, block) THEN FALSE
    ELSE JsRem(hexToNumber(block.number), filter.interval) = 0

\* Lines 326-342.
isBlockFilterMatched(filter, block) ==
    IF ~InBlockRange(filter, block) THEN FALSE
    ELSE JsRem(hexToNumber(block.number) - filter.offset, filter.interval) = 0

\* configAndIndexingFunctions.ts, lines 886-914: the filter of a block
\* source; the interval is <<>> when the source gives none.  A zero (or
\* NaN) interval fails the validation.
BlockSourceInterval(interval) == IF interval = <<>> THEN 1 ELSE interval[1]

BlockSourceThrows(interval) == BlockSourceInterval(interval) = 0

BlockSourceFilter(interval, fromBlock, toBlock) ==
    [type |-> "block",
     interval |-> BlockSourceInterval(interval),
     offset |-> JsRem(fromBlock, BlockSourceInterval(interval)),
     fromBlock |-> fromBlock,
     toBlock |-> toBlock]

(***************************************************************************)
(* The inputs of the matchers.                                             *)
(***************************************************************************)
\* The block ranges [fromBlock, toBlock] up to max, toBlock undefined or not.
BlockRanges(max) ==
    {<<f, <<>>>> : f \in 0..max}
        \cup {<<f, <<t>>>> : f \in 0..max, t \in 0..max}

SyncBlocks(max) == {[number |-> numberToHex(n)] : n \in 0..max}

addrA == Hex("addrA", FALSE)
addrB == Hex("addrB", FALSE)
addrF == Hex("addrF", FALSE)
selectorA == Hex("selectorA", FALSE)
selectorB == Hex("selectorB", FALSE)

\* The addresses a filter may hold.
FilterAddresses ==
    {Undefined, Literal(addrA), List(<<addrA, addrB>>), Factory(addrA),
     Factory(addrF)}

\* The topics a log filter may hold in one slot.
FilterTopics == {Undefined, Literal(selectorA), List(<<selectorA, selectorB>>)}

\* The addresses and topics of the chain's objects: a checksummed spelling
\* of addrA / selectorA, and a value no filter holds.
ObjectAddresses == {Hex("addrA", TRUE), Hex("addrC", FALSE)}
ObjectTopics == {Hex("selectorA", TRUE), Hex("selectorC", FALSE)}

LogFilters ==
    {[type |-> "log", address |-> a, topic0 |-> t0, topic1 |-> t1,
      topic2 |-> t2, topic3 |-> t3, fromBlock |-> r[1], toBlock |-> r[2]] :
        a \in FilterAddresses, t0 \in FilterTopics, t1 \in FilterTopics,
        t2 \in FilterTopics, t3 \in FilterTopics,
        r \in BlockRanges(MaxSyncBlock)}

SyncLogs ==
    {[address |-> a, topics |-> ts] :
        a \in ObjectAddresses,
        ts \in UNION {[1..n -> ObjectTopics] : n \in 0..MaxTopics}}

CallTypes == {"CALL", "DELEGATECALL"}

\* The filters of call traces, transfers and transactions.
AddressPairFilters(type) ==
    {[type |-> type, fromAddress |-> f, toAddress |-> t, callType |-> "CALL",
      fromBlock |-> r[1], toBlock |-> r[2]] :
        f \in FilterAddresses, t \in FilterAddresses,
        r \in BlockRanges(MaxSyncBlock)}

SyncCallTraces ==
    {[action |-> [from |-> f, to |-> t, callType |-> c, input |-> i]] :
        f \in ObjectAddresses, t \in ObjectAddresses, c \in CallTypes,
        i \in {"0x", "0xa9059cbb"}}

SyncTransactions ==
    {[from |-> f, to |-> t] :
        f \in ObjectAddresses,
        t \in {<<>>} \cup {<<a>> : a \in ObjectAddresses}}

BlockFilters ==
    {[type |-> "block", interval |-> i, offset |-> o, fromBlock |-> r[1],
      toBlock |-> r[2]] :
        i \in (-MaxInterval..MaxInterval) \ {0}, o \in 0..MaxInterval,
        r \in BlockRanges(MaxIntervalBlock)}

(***************************************************************************)
(* The applications of the matchers.                                       *)
(***************************************************************************)
IsLogFilterMatchedCall ==
    /\ NoCall
    /\ \E filter \in LogFilters, block \in SyncBlocks(MaxSyncBlock), log \in SyncLogs :
        call' = [op |-> "isLogFilterMatched", filter |-> filter, block |-> block,
                 object |-> log,
                 result |-> isLogFilterMatched(filter, block, log)]
    /\ UNCHANGED <<bfVars, runVars>>

IsCallTraceFilterMatchedCall ==
    /\ NoCall
    /\ \E filter \in AddressPairFilters("callTrace"),
          block \in SyncBlocks(MaxSyncBlock), callTrace \in SyncCallTraces :
        call' = [op |-> "isCallTraceFilterMatched", filter |-> filter,
                 block |-> block, object |-> callTrace,
                 result |-> isCallTraceFilterMatched(filter, block, callTrace)]
    /\ UNCHANGED <<bfVars, runVars>>

IsTransferFilterMatchedCall ==
    /\ NoCall
    /\ \E filter \in AddressPairFilters("transfer"),
          block \in SyncBlocks(MaxSyncBlock), callTrace \in SyncCallTraces :
        call' = [op |-> "isTransferFilterMatched", filter |-> filter,
                 block |-> block, object |-> callTrace,
                 result |-> isTransferFilterMatched(filter, block, callTrace)]
    /\ UNCHANGED <<bfVars, runVars>>

IsTransactionFilterMatchedCall ==
    /\ NoCall
    /\ \E filter \in AddressPairFilters("transaction"),
          block \in SyncBlocks(MaxSyncBlock), transaction \in SyncTransactions :
        call' = [op |-> "isTransactionFilterMatched", filter |-> filter,
                 block |-> block, object |-> transaction,
                 result |-> isTransactionFilterMatched(filter, block, transaction)]
    /\ UNCHANGED <<bfVars, runVars>>

IsBlockFilterMatchedCall ==
    /\ NoCall
    /\ \E filter \in BlockFilters, block \in SyncBlocks(MaxIntervalBlock) :
        call' = [op |-> "isBlockFilterMatched", filter |-> filter,
                 block |-> block, object |-> block,
                 result |-> isBlockFilterMatched(filter, block)]
    /\ UNCHANGED <<bfVars, runVars>>

\* A block source is built from the config, and a block is matched against
\* its filter.
BlockSourceMatchCall ==
    /\ NoCall
    /\ \E interval \in {<<>>} \cup {<<i>> : i \in -MaxInterval..MaxInterval},
          r \in BlockRanges(MaxIntervalBlock),
          block \in SyncBlocks(MaxIntervalBlock) :
        IF BlockSourceThrows(interval)
        THEN call' = [op |-> "blockSources", threw |-> TRUE]
        ELSE LET filter == BlockSourceFilter(interval, r[1], r[2])
             IN call' = [op |-> "blockSources", threw |-> FALSE,
                         filter |-> filter, block |-> block, object |-> block,
                         result |-> isBlockFilterMatched(filter, block)]
    /\ UNCHANGED <<bfVars, runVars>>


(***************************************************************************)
(* Part III: the client middleware, path /client/db                        *)
(* (packages/core/src/_test/e2e/erc20/src/api/index.ts, lines 80-134).     *)
(*                                                                         *)
(* A query text is a sequence of words.  The database answers a statement  *)
(* with "ok", with "error" (the statement is rejected, the connection      *)
(* stays usable) or with "lost" (the connection is gone, and every later   *)
(* statement on it is rejected).  The pool hands out one connection, and   *)
(* replaces it when it is lost.  A query whose first word is INSERT is a   *)
(* write: the database rejects it inside a read-only transaction, and      *)
(* applies it otherwise.                                                   *)
(***************************************************************************)
SqlWords == {"SELECT", "INSERT", "COMMIT", "commit", "COMMITTED"}

SqlTexts == UNION {[1..n -> SqlWords] : n \in 1..MaxSqlWords}

\* The sql parameter of a request: absent, not a JSON query, or a query.
SqlParams ==
    {[kind |-> "missing", sql |-> <<>>], [kind |-> "malformed", sql |-> <<>>]}
        \cup {[kind |-> "query", sql |-> s] : s \in SqlTexts}

\* The query of the test "client.db readonly" (index.test.ts, line 117).
IsWrite(sql) == sql[1] = "INSERT"

ToUpperWord(word) == IF word = "commit" THEN "COMMIT" ELSE word

\* Line 88: query.sql.match(/\bCOMMIT\b/i).
MatchesCommit(sql) == \E i \in 1..Len(sql) : ToUpperWord(sql[i]) = "COMMIT"

NoResponse == [status |-> 0, body |-> "none"]

\* The statements of the try block and of the finally block, lines 107-127.
Statements ==
    <<"BEGIN READ ONLY", "SET work_mem", "SET search_path",
      "SET statement_timeout", "SET lock_timeout", "PREPARE", "EXECUTE",
      "DEALLOCATE", "ROLLBACK">>

StatementAfter(pc) ==
    Statements[(CHOOSE i \in 1..Len(Statements) : Statements[i] = pc) + 1]

\* The handler begins with request number n on a pool whose connection
\* holds the prepared statement ponder_client or not, and on a database
\* to which the earlier requests have applied the given number of writes.
ClientBegin(n, driver, param, prepared, writes) ==
    [op |-> "client.db", n |-> n, driver |-> driver, param |-> param,
     pc |-> "begin", sent |-> <<>>, prepared |-> prepared, lost |-> FALSE,
     failed |-> "none", executed |-> FALSE, pending |-> NoResponse,
     response |-> NoResponse, threw |-> "none", connected |-> FALSE,
     released |-> FALSE, writes |-> writes]

\* Lines 81-104: up to the first await of the handler.
ClientFirstAwait(c) ==
    CASE c.param.kind = "missing" ->
            [c EXCEPT !.pc = "done",
                      !.response = [status |-> 400,
                                    body |-> "Missing \"sql\" query parameter"]]
      [] c.param.kind = "malformed" ->
            [c EXCEPT !.pc = "done", !.threw = "JSON.parse"]
      [] MatchesCommit(c.param.sql) ->
            [c EXCEPT !.pc = "done",
                      !.response = [status |-> 400, body |-> "Invalid query"]]
      [] c.driver = "pglite" ->
            [c EXCEPT !.pc = "execute", !.sent = <<"execute">>]
      [] OTHER -> [c EXCEPT !.pc = "connect"]

\* A request to /client/db arrives; the handler runs to its first await.
ClientDbRequest ==
    /\ \/ NoCall
       \/ call.op = "client.db" /\ call.pc = "done" /\ call.n < MaxRequests
    /\ \E driver \in {"postgres", "pglite"}, param \in SqlParams :
        /\ call.op = "client.db" => driver = call.driver
        /\ call' = ClientFirstAwait(
                     IF NoCall THEN ClientBegin(1, driver, param, FALSE, 0)
                     ELSE ClientBegin(call.n + 1, driver, param,
                                      call.prepared /\ ~call.lost,
                                      call.writes))
    /\ UNCHANGED <<bfVars, runVars>>

\* Lines 93-101: prepareQuery(...).execute() of the embedded database has
\* settled.  The query runs outside any transaction.
ClientExecuteDone ==
    /\ call.op = "client.db" /\ call.pc = "execute"
    /\ \E answer \in {"ok", "error"} :
        call' = IF answer = "ok"
                THEN [call EXCEPT !.pc = "done", !.executed = TRUE,
                                  !.writes = IF IsWrite(call.param.sql)
                                             THEN @ + 1 ELSE @,
                                  !.response = [status |-> 200, body |-> "result"]]
                ELSE [call EXCEPT !.pc = "done", !.failed = "execute",
                                  !.response = [status |-> 500, body |-> "execute"]]
    /\ UNCHANGED <<bfVars, runVars>>

\* Line 103: driver.internal.connect() has settled; it is outside the try.
ClientConnectDone ==
    /\ call.op = "client.db" /\ call.pc = "connect"
    /\ \E answer \in {"ok", "error"} :
        call' = IF answer = "ok"
                THEN [call EXCEPT !.pc = "BEGIN READ ONLY",
                                  !.connected = TRUE,
                                  !.sent = <<"BEGIN READ ONLY">>]
                ELSE [call EXCEPT !.pc = "done", !.threw = "connect"]
    /\ UNCHANGED <<bfVars, runVars>>

\* What the database can answer to the statement at pc.  EXECUTE runs
\* inside the transaction that BEGIN READ ONLY has opened.
Answers(c) ==
    IF c.pc = "PREPARE" /\ c.prepared THEN {"error", "lost"}
    ELSE IF c.pc = "EXECUTE" /\ IsWrite(c.param.sql) THEN {"error", "lost"}
    ELSE IF c.pc \in {"PREPARE", "EXECUTE"} THEN {"ok", "error", "lost"}
    ELSE {"ok", "lost"}

\* Lines 105-124: a statement of the try block has settled.  A rejection
\* is caught: the 500 response is held while the finally block runs.
ClientQueryDone ==
    /\ call.op = "client.db"
    /\ call.pc \in Range(Statements) \ {"ROLLBACK"}
    /\ \E answer \in Answers(call) :
        call' =
            IF answer # "ok"
            THEN [call EXCEPT !.pc = "ROLLBACK",
                              !.sent = Append(@, "ROLLBACK"),
                              !.lost = (answer = "lost"),
                              !.failed = call.pc,
                              !.pending = [status |-> 500, body |-> call.pc]]
            ELSE [call EXCEPT !.pc = StatementAfter(call.pc),
                              !.sent = Append(@, StatementAfter(call.pc)),
                              !.prepared = IF call.pc = "PREPARE" THEN TRUE
                                           ELSE IF call.pc = "DEALLOCATE" THEN FALSE
                                           ELSE @,
                              !.executed = (@ \/ call.pc = "EXECUTE"),
                              !.pending = IF call.pc = "DEALLOCATE"
                                          THEN [status |-> 200, body |-> "result"]
                                          ELSE @]
    /\ UNCHANGED <<bfVars, runVars>>

\* Lines 125-129: ROLLBACK has settled.  If it is rejected the exception
\* leaves the finally block in place of the response that was held, and
\* client.release() is not reached.
ClientRollbackDone ==
    /\ call.op = "client.db" /\ call.pc = "ROLLBACK"
    /\ \E answer \in (IF call.lost THEN {"lost"} ELSE {"ok", "lost"}) :
        call' = IF answer = "ok"
                THEN [call EXCEPT !.pc = "done", !.released = TRUE,
                                  !.response = call.pending]
                ELSE [call EXCEPT !.pc = "done", !.lost = TRUE,
                                  !.failed = IF @ = "none" THEN "ROLLBACK" ELSE @,
                                  !.threw = "ROLLBACK"]
    /\ UNCHANGED <<bfVars, runVars>>


(***************************************************************************)
(* Part III: the log sources of one contract,                              *)
(* buildConfigAndIndexingFunctions                                         *)
(* (packages/core/src/build/configAndIndexingFunctions.ts, lines 348-645). *)
(*                                                                         *)
(* The contract has one block range and a literal address.  An event has a *)
(* name; its selector is computed from its ABI item.  The indexing         *)
(* functions registered for the contract are given by their event names,   *)
(* and the filter option is absent, one filter, or an array of filters,    *)
(* each naming an event (filter arguments are left out: they fill topic1   *)
(* to topic3 only).                                                        *)
(***************************************************************************)
AbiEventNames == {"Transfer", "Approval", "Deposit"}

EventNames == AbiEventNames \cup {"Unknown"}

\* abiEvents.bySafeName[name].selector
selector(name) == [selector |-> name]

\* Object.keys order of the registered indexing functions.
EventOrder == <<"Transfer", "Approval", "Deposit", "Unknown">>

RECURSIVE KeysIn(_, _)
KeysIn(names, order) ==
    IF order = <<>> THEN <<>>
    ELSE (IF Head(order) \in names THEN <<Head(order)>> ELSE <<>>)
            \o KeysIn(names, Tail(order))

FilterOptions ==
    {[kind |-> "undefined", events |-> <<>>]}
        \cup {[kind |-> "one", events |-> <<e>>] : e \in EventNames}
        \cup {[kind |-> "array", events |-> es] :
                 es \in UNION {[1..n -> EventNames] : n \in 0..MaxEventFilters}}

RECURSIVE SelectSeqNotIn(_, _)
SelectSeqNotIn(seq, excluded) ==
    IF seq = <<>> THEN <<>>
    ELSE (IF Head(seq) \in excluded THEN <<>> ELSE <<Head(seq)>>)
            \o SelectSeqNotIn(Tail(seq), excluded)

\* Lines 383-400.
registeredEventSelectors(registeredLogEvents) ==
    [i \in 1..Len(registeredLogEvents) |-> selector(registeredLogEvents[i])]

\* buildTopics(abi, eventFilters): one entry for every filter, its topic0
\* the selector of the filter's event.
TopicsOfFilter(event) == [array |-> FALSE, topic0 |-> <<selector(event)>>]

buildTopics(eventFilters) ==
    [i \in 1..Len(eventFilters) |-> TopicsOfFilter(eventFilters[i])]

\* Lines 446-465.
excludedRegisteredEventSelectors(registered, topics) ==
    SelectSeqNotIn(registered, {topics[i].topic0[1] : i \in 1..Len(topics)})

\* Lines 416-473.
topicsArray(filter, registered) ==
    IF filter.kind = "undefined"
    THEN <<[array |-> TRUE, topic0 |-> registered]>>
    ELSE LET topics == buildTopics(filter.events)
             excluded == excludedRegisteredEventSelectors(registered, topics)
         IN IF Len(excluded) > 0
            THEN Append(topics, [array |-> TRUE, topic0 |-> excluded])
            ELSE topics

\* Lines 629-634, for a log source.
hasNoRegisteredIndexingFunctions(topics) ==
    topics.array /\ Len(topics.topic0) = 0

RECURSIVE RemoveUnregistered(_)
RemoveUnregistered(logSources) ==
    IF logSources = <<>> THEN <<>>
    ELSE (IF hasNoRegisteredIndexingFunctions(Head(logSources)) THEN <<>>
          ELSE <<Head(logSources)>>) \o RemoveUnregistered(Tail(logSources))

\* Lines 385-396 and 426-441: the validation of the event names.
ContractSourceThrows(filter, registeredLogEvents) ==
    \/ \E i \in 1..Len(registeredLogEvents) :
            registeredLogEvents[i] \notin AbiEventNames
    \/ \E i \in 1..Len(filter.events) : filter.events[i] \notin AbiEventNames

\* The log sources of the contract: the topic0 of each of them.
ContractLogSources(filter, registeredLogEvents) ==
    RemoveUnregistered(
        topicsArray(filter, registeredEventSelectors(registeredLogEvents)))

BuildContractSourcesCall ==
    /\ NoCall
    /\ \E filter \in FilterOptions, registered \in SUBSET EventNames :
        LET registeredLogEvents == KeysIn(registered, EventOrder)
        IN call' = [op |-> "buildContractSources", filter |-> filter,
                    registered |-> registered,
                    result |->
                      IF ContractSourceThrows(filter, registeredLogEvents)
                      THEN [status |-> "error", logSources |-> <<>>]
                      ELSE [status |-> "success",
                            logSources |->
                              ContractLogSources(filter, registeredLogEvents)]]
    /\ UNCHANGED <<bfVars, runVars>>


(***************************************************************************)
(* Part III: the client middleware, path /client/live                      *)
(* (packages/core/src/_test/e2e/erc20/src/api/index.ts, lines 44-79 and    *)
(* 136-153).                                                               *)
(*                                                                         *)
(* statusResolver is the number of the promiseWithResolvers() the variable *)
(* holds; `resolved` is the set of those already resolved.  A stream is    *)
(* absent, writing a message (suspended at stream.writeSSE), waiting       *)
(* (suspended at the promise it read from statusResolver), or closed.      *)
(* `unserved` says that a notification has arrived since the stream's      *)
(* latest message was produced.                                            *)
(***************************************************************************)
Streams == 1..MaxStreams

NoStream == [pc |-> "absent", awaits |-> 0, unserved |-> FALSE, messages |-> 0]

LiveBegin ==
    [op |-> "client.live", statusResolver |-> 0, resolved |-> {},
     notifications |-> 0, streams |-> [i \in Streams |-> NoStream]]

LiveCall == call.op = "client.live"

\* Lines 143-148: the stream produces a message and is suspended at
\* stream.writeSSE.
WriteSSE(stream) ==
    [stream EXCEPT !.pc = "writing", !.unserved = FALSE, !.messages = @ + 1]

\* Lines 136-148: a request to /client/live opens a stream, which runs to
\* its first await.
LiveRequest(i) ==
    /\ \/ NoCall /\ i = 1
       \/ LiveCall /\ call.streams[i].pc = "absent"
    /\ call' = [(IF NoCall THEN LiveBegin ELSE call)
                   EXCEPT !.streams[i] = WriteSSE(NoStream)]
    /\ UNCHANGED <<bfVars, runVars>>

\* Lines 144-149: stream.writeSSE has settled (a rejection is caught and
\* dropped); `await statusResolver.promise` reads the variable now, and the
\* stream awaits the promise of the current statusResolver.
LiveWriteDone(i) ==
    /\ LiveCall /\ call.streams[i].pc = "writing"
    /\ call' = [call EXCEPT !.streams[i].pc = "waiting",
                            !.streams[i].awaits = call.statusResolver]
    /\ UNCHANGED <<bfVars, runVars>>

\* Lines 143-148: the awaited promise is resolved; the loop goes round and
\* the next message is produced.
LiveResume(i) ==
    /\ LiveCall /\ call.streams[i].pc = "waiting"
    /\ call.streams[i].awaits \in call.resolved
    /\ call' = [call EXCEPT !.streams[i] = WriteSSE(@)]
    /\ UNCHANGED <<bfVars, runVars>>

\* Lines 53-58 and 72-75: a notification arrives on the status channel;
\* the current resolver is resolved and a fresh one is stored.
LiveNotification ==
    /\ LiveCall /\ call.notifications < MaxNotifications
    /\ call' = [call EXCEPT
                  !.notifications = @ + 1,
                  !.resolved = @ \cup {call.statusResolver},
                  !.statusResolver = @ + 1,
                  !.streams = [i \in Streams |->
                                 IF @[i].pc \in {"writing", "waiting"}
                                 THEN [@[i] EXCEPT !.unserved = TRUE]
                                 ELSE @[i]]]
    /\ UNCHANGED <<bfVars, runVars>>

\* Line 143: the client goes away; the loop ends at its next test of
\* stream.closed or stream.aborted.
LiveClose(i) ==
    /\ LiveCall /\ call.streams[i].pc \in {"writing", "waiting"}
    /\ call' = [call EXCEPT !.streams[i].pc = "closed"]
    /\ UNCHANGED <<bfVars, runVars>>


(***************************************************************************)
(* Part III: the block number "latest" of buildConfigAndIndexingFunctions  *)
(* (packages/core/src/build/configAndIndexingFunctions.ts, lines 86-120).  *)
(*                                                                         *)
(* resolveBlockRanges calls latest(network) once for every "latest" of a   *)
(* block range; the calls of all sources run side by side (Promise.all).   *)
(* latestBlockNumbers maps a network name to the promise of the            *)
(* eth_blockNumber request: absent, pending, resolved with a hex quantity, *)
(* or rejected.  The chain grows: a later request may be answered with a   *)
(* higher number.                                                          *)
(***************************************************************************)
Networks == 1..MaxNetworks

LatestCalls == 1..MaxLatestCalls

\* What eth_blockNumber may answer.
Heads == {numberToHex(n) : n \in (MaxHead - 1)..MaxHead}

\* The promise of a request that has not been answered.
Pending == [state |-> "pending", value |-> <<>>]

\* requests: per network, the promises of the requests sent, in order;
\* latestBlockNumbers: per network, the number of the request whose promise
\* the map holds, 0 for none.
LatestBegin ==
    [op |-> "latest",
     latestBlockNumbers |-> [n \in Networks |-> 0],
     requests |-> [n \in Networks |-> <<>>],
     callers |-> [c \in LatestCalls |->
                    [pc |-> "idle", network |-> 0, awaits |-> 0, result |-> 0]]]

IsLatest == call.op = "latest"

\* A slip: the map is taken to hold a network only once its request has
\* been answered.
HasNetworkOnceAnswered(c, n) ==
    /\ c.latestBlockNumbers[n] # 0
    /\ c.requests[n][c.latestBlockNumbers[n]].state = "resolved"

\* Line 89: latestBlockNumbers.has(network.name).
HasNetwork(c, n) == c.latestBlockNumbers[n] # 0

\* Lines 88-101: latest(network) runs to its await: it takes the promise
\* of the map, or sends the request and stores its promise.
LatestCall(c, n) ==
    /\ NoCall \/ IsLatest
    /\ LET before == IF NoCall THEN LatestBegin ELSE call
           sent == Len(before.requests[n]) + 1
       IN /\ before.callers[c].pc = "idle"
          /\ call' =
               IF HasNetwork(before, n)
               THEN [before EXCEPT
                       !.callers[c] = [pc |-> "awaiting", network |-> n,
                                       awaits |-> before.latestBlockNumbers[n],
                                       result |-> 0]]
               ELSE [before EXCEPT
                       !.requests[n] = Append(@, Pending),
                       !.latestBlockNumbers[n] = sent,
                       !.callers[c] = [pc |-> "awaiting", network |-> n,
                                       awaits |-> sent, result |-> 0]]
    /\ UNCHANGED <<bfVars, runVars>>

\* The transport answers the pending request number k of network n, or
\* fails.
LatestAnswer(n, k) ==
    /\ IsLatest
    /\ k \in 1..Len(call.requests[n]) /\ call.requests[n][k] = Pending
    /\ \E answer \in [state : {"resolved"}, value : Heads]
                        \cup {[state |-> "rejected", value |-> <<>>]} :
        call' = [call EXCEPT !.requests[n][k] = answer]
    /\ UNCHANGED <<bfVars, runVars>>

\* Lines 90 and 101: the awaited promise has settled; latest returns
\* hexToNumber of its value, or throws.
LatestReturn(c) ==
    /\ IsLatest /\ call.callers[c].pc = "awaiting"
    /\ LET caller == call.callers[c]
           promise == call.requests[caller.network][caller.awaits]
       IN /\ promise # Pending
          /\ call' = [call EXCEPT
                        !.callers[c].pc =
                            IF promise.state = "rejected" THEN "threw" ELSE "returned",
                        !.callers[c].result =
                            IF promise.state = "rejected" THEN 0
                            ELSE hexToNumber(promise.value)]
    /\ UNCHANGED <<bfVars, runVars>>


(***************************************************************************)
(* Part III: the validation of safeBuildConfigAndIndexingFunctions         *)
(* (packages/core/src/build/configAndIndexingFunctions.ts, lines 140-333   *)
(* and 937-983).                                                           *)
(*                                                                         *)
(* A name is a sequence of tokens: words and the separators ":" and ".".   *)
(* The config has one network, "mainnet"; the sources are named A and B,   *)
(* and source A has one block range and names a network.  `later` stands   *)
(* for the validations of lines 335-926 (ABI, addresses, intervals).       *)
(***************************************************************************)
NameTokens == {"A", "X", ":", "."}

EventNameStrings ==
    UNION {[1..n -> NameTokens] : n \in 1..MaxNameTokens}
        \cup {<<"A", ":", "block">>, <<"A", ":", "transfer", ":", "from">>,
               <<"A", ":", "transfer", ":", "up">>,
               <<"A", ":", "swap", ":", "from">>}

\* The rawIndexingFunctions: none, one, or two of which the second has the
\* name of the first or the name A:block.
RawIndexingFunctions ==
    {<<>>} \cup {<<e>> : e \in EventNameStrings}
           \cup {<<e, e>> : e \in EventNameStrings}
           \cup {<<e, <<"A", ":", "block">>>> : e \in EventNameStrings}

Configs ==
    [pollingInterval : {<<>>, <<99>>, <<100>>},
     contracts : SUBSET {"A"}, accounts : SUBSET {"A", "B"},
     blocks : SUBSET {"A", "B"},
     network : {"mainnet", "testnet"},
     startBlock : {0, 2}, endBlock : {<<>>, <<1>>}]

\* String.prototype.split: the pieces of seq between the separators.
RECURSIVE split(_, _)
split(seq, sep) ==
    IF \A i \in 1..Len(seq) : seq[i] # sep THEN <<seq>>
    ELSE LET k == CHOOSE i \in 1..Len(seq) :
                     seq[i] = sep /\ \A j \in 1..(i - 1) : seq[j] # sep
         IN <<SubSeq(seq, 1, k - 1)>> \o split(SubSeq(seq, k + 1, Len(seq)), sep)

\* Lines 197-199.
eventNameComponents(eventName) ==
    IF \E i \in 1..Len(eventName) : eventName[i] = "."
    THEN split(eventName, ".") ELSE split(eventName, ":")

\* Lines 201-233: the format of an event name is refused.
InvalidEventFormat(eventName) ==
    LET components == eventNameComponents(eventName)
    IN \/ components[1] = <<>>
       \/ /\ Len(components) = 3
          /\ \/ components[2] \notin {<<"transaction">>, <<"transfer">>}
             \/ components[3] \notin {<<"from">>, <<"to">>}
       \/ Len(components) = 2 /\ components[2] = <<>>
       \/ Len(components) \notin {2, 3}

\* Object.keys of the config's contracts, accounts and blocks, lines 182-186.
SourceNameList(config) ==
    KeysIn(config.contracts, <<"A">>) \o KeysIn(config.accounts, <<"A", "B">>)
        \o KeysIn(config.blocks, <<"A", "B">>)

\* A slip: the block sources are left out of the duplicate check.
DuplicateSourceNameNoBlocks(config) == config.contracts \cap config.accounts # {}

\* Lines 181-193.
DuplicateSourceName(config) ==
    \E i, j \in 1..Len(SourceNameList(config)) :
        i < j /\ SourceNameList(config)[i] = SourceNameList(config)[j]

\* Lines 235-256: the function's name was seen before, or its source is
\* not in the config.
DuplicateEvent(fns, k) == \E j \in 1..(k - 1) : fns[j] = fns[k]

UnknownSource(config, eventName) ==
    \A name \in Range(SourceNameList(config)) :
        eventNameComponents(eventName)[1] # <<name>>

\* Lines 271-331, for source A: its network is not in the config, or its
\* start block is after its end block.
InvalidSource(config) ==
    /\ "A" \in Range(SourceNameList(config))
    /\ \/ config.network # "mainnet"
       \/ config.endBlock # <<>> /\ config.endBlock[1] < config.startBlock

\* buildConfigAndIndexingFunctions: the error it throws first, or "none".
BuildError(config, fns, later) ==
    CASE config.pollingInterval # <<>> /\ config.pollingInterval[1] < 100 ->
            "pollingInterval"
      [] DuplicateSourceName(config) -> "Duplicate source name"
      [] \E k \in 1..Len(fns) : InvalidEventFormat(fns[k]) -> "Invalid event"
      [] \E k \in 1..Len(fns) : DuplicateEvent(fns, k) ->
            "Multiple indexing functions"
      [] \E k \in 1..Len(fns) : UnknownSource(config, fns[k]) ->
            "Invalid source name"
      [] InvalidSource(config) -> "Invalid source"
      [] later -> "later"
      [] Len(fns) = 0 -> "Found 0 registered indexing functions"
      [] OTHER -> "none"

\* Lines 951-983: the try block returns success, the catch block error.
SafeBuildCall ==
    /\ NoCall
    /\ \E config \in Configs, fns \in RawIndexingFunctions, later \in BOOLEAN :
        call' = [op |-> "safeBuild", config |-> config, fns |-> fns,
                 threw |-> FALSE,
                 result |->
                   IF BuildError(config, fns, later) = "none"
                   THEN [status |-> "success", error |-> "none"]
                   ELSE [status |-> "error",
                         error |-> BuildError(config, fns, later)]]
    /\ UNCHANGED <<bfVars, runVars>>


(***************************************************************************)
(* Part III: the metadata store (src/unnamed/part_001).                    *)
(*                                                                         *)
(* A Status maps chain ids to [block, ready]; a block is null or has a     *)
(* number and a timestamp.  The table _ponder_status is a list of rows     *)
(* with the columns chain_id, block_number, block_timestamp and ready; a   *)
(* column holds NULL or an integer.  The driver decides how a bigint       *)
(* column reaches JavaScript: node-postgres hands it over as a string of   *)
(* digits, PGlite as a number.                                             *)
(***************************************************************************)
ChainIds == {1, 2}

NullBlock == [null |-> TRUE, number |-> 0, timestamp |-> 0]

StatusBlocks ==
    {NullBlock} \cup [null : {FALSE}, number : 0..MaxStatusBlock,
                      timestamp : 0..MaxStatusBlock]

ChainStatuses == [block : StatusBlocks, ready : BOOLEAN]

Statuses == UNION {[chains -> ChainStatuses] : chains \in SUBSET ChainIds \ {{}}}

SqlNull == [null |-> TRUE, n |-> 0]
SqlInt(n) == [null |-> FALSE, n |-> n]

\* Lines 49-54: the row of Object.entries(status); an undefined value
\* (value.block?.number of a null block) is inserted as NULL.
StatusRow(chainId, value) ==
    [chain_id |-> chainId,
     block_number |->
        IF value.block.null THEN SqlNull ELSE SqlInt(value.block.number),
     block_timestamp |->
        IF value.block.null THEN SqlNull ELSE SqlInt(value.block.timestamp),
     ready |-> value.ready]

\* Lines 47-66: insert one row, on a conflict of chain_id set the columns
\* of the row that is there to the excluded ones.
Upsert(table, row) ==
    IF \E i \in 1..Len(table) : table[i].chain_id = row.chain_id
    THEN [i \in 1..Len(table) |->
            IF table[i].chain_id = row.chain_id THEN row ELSE table[i]]
    ELSE Append(table, row)

RECURSIVE UpsertAll(_, _, _)
UpsertAll(table, status, chains) ==
    IF chains = <<>> THEN table
    ELSE UpsertAll(Upsert(table, StatusRow(Head(chains), status[Head(chains)])),
                   status, Tail(chains))

\* The JavaScript value of a bigint column and its truthiness: NULL is
\* null, a string of digits is truthy ("0" too), the number 0 is falsy.
ColumnValue(driver, column) ==
    [type |-> IF column.null THEN "null"
              ELSE IF driver = "postgres" THEN "string" ELSE "number",
     n |-> column.n]

Truthy(value) ==
    CASE value.type = "null" -> FALSE
      [] value.type = "string" -> TRUE
      [] OTHER -> value.n # 0

\* Lines 30-38: the status entry built from one row.
RowStatus(driver, row) ==
    [block |->
        IF /\ Truthy(ColumnValue(driver, row.block_number))
           /\ Truthy(ColumnValue(driver, row.block_timestamp))
        THEN [null |-> FALSE, number |-> row.block_number.n,
              timestamp |-> row.block_timestamp.n]
        ELSE NullBlock,
     ready |-> row.ready]

\* Lines 17-43: null for an empty table, else the status of its rows; the
\* entry of a chain is the one of its last row.
getStatus(driver, table) ==
    IF Len(table) = 0 THEN [null |-> TRUE, status |-> <<>>]
    ELSE [null |-> FALSE,
          status |->
            [c \in {table[i].chain_id : i \in 1..Len(table)} |->
                RowStatus(driver,
                    table[CHOOSE i \in 1..Len(table) :
                            /\ table[i].chain_id = c
                            /\ \A j \in (i + 1)..Len(table) :
                                   table[j].chain_id # c])]]

MetadataCall == call.op = "metadata"

\* getMetadataStore on a database whose table is empty.
MetadataBegin ==
    /\ NoCall
    /\ \E driver \in {"postgres", "pglite"} :
        call' = [op |-> "metadata", driver |-> driver, table |-> <<>>,
                 sets |-> <<>>, gets |-> 0,
                 got |-> [null |-> TRUE, status |-> <<>>]]
    /\ UNCHANGED <<bfVars, runVars>>

\* setStatus: the first status has any chains, a later one has one chain.
SetStatusCall ==
    /\ MetadataCall
    /\ Len(call.sets) < MaxSetStatus
    /\ \E status \in Statuses :
        /\ call.sets # <<>> => Cardinality(DOMAIN status) = 1
        /\ call' = [call EXCEPT
                !.table = UpsertAll(call.table, status,
                                    KeysIn(DOMAIN status, <<1, 2>>)),
                !.sets = Append(call.sets, status)]
    /\ UNCHANGED <<bfVars, runVars>>

\* getStatus.
GetStatusCall ==
    /\ MetadataCall
    /\ call.gets # Len(call.sets) + 1
    /\ call' = [call EXCEPT !.got = getStatus(call.driver, call.table),
                            !.gets = Len(call.sets) + 1]
    /\ UNCHANGED <<bfVars, runVars>>


(***************************************************************************)
(* Specifications.                                                         *)
(***************************************************************************)
BfNext ==
    \E s \in Sources :
        \/ BackfillSourceBegin(s)
        \/ BackfillSourcePlan(s)
        \/ LogTaskDone(s)
        \/ LogTaskRetry(s)
        \/ LogTaskExhausted(s)
        \/ BlockTaskDone(s)
        \/ BlockTaskRetry(s)
        \/ BlockTaskExhausted(s)
        \/ LogBackfillDrained(s)
        \/ LogBackfillRejected(s)
        \/ BlockBackfillDrained(s)
        \/ BlockBackfillRejected(s)

\* No backfillSource call is in progress.
BfAbsent == BfInit({}) /\ isHotReload = FALSE

\* One source backfilled on its own.
SpecBackfillInit == BfInit({1}) /\ RunAbsent /\ NoCall

SpecBackfill == SpecBackfillInit /\ [][BfNext]_vars

\* backfillSource called for every source at once (stats.sourceTotalCount
\* is their number), not in a hot reload, on one network: the calls up to
\* the end of their planning, in every order of the cache reads.  The
\* tasks pushed stay in their queues; the statistics change no more once
\* the planning is done.
SpecPlanningInit ==
    /\ BfInit(Sources) /\ RunAbsent /\ NoCall
    /\ isHotReload = FALSE
    /\ \A s \in Sources :
          /\ latestBlockNumber[s] = latestBlockNumber[1]
          /\ source[s].blockLimit >= 1

PlanningNext ==
    \E s \in Sources :
        \/ BackfillSourceBegin(s)
        \/ BackfillSourcePlan(s)

SpecPlanning == SpecPlanningInit /\ [][PlanningNext]_vars


\* run from the call of start() on: historical batches, the switch to
\* realtime, a single realtime event, and the shutdown function.  With one
\* event the queue's deferred next() never finds an event waiting, so that
\* action is left out here.
SpecRunInit ==
    /\ RunInit([batches |-> MaxBatches, events |-> 1,
                shutdowns |-> MaxShutdownCalls])
    /\ BfAbsent
    /\ NoCall

HistoricalNext ==
    \/ StartSetupDone
    \/ StartGetEventsYield
    \/ StartGetEventsEnd
    \/ StartThrows
    \/ StartHandleEventsDone
    \/ StartFlushStep
    \/ StartBatchStatusDone
    \/ StartFinalStep
    \/ StartRealtime
    \/ StartRealtimeDone
    \/ StartReturns
    \/ OnRealtimeEvent
    \/ WorkerProcessEventsDone
    \/ WorkerCompleteDone
    \/ WorkerReorgStep
    \/ WorkerReturns
    \/ \E i \in ShutdownCalls :
        \/ ShutdownInvoke(i)
        \/ ShutdownKillDone(i)
        \/ ShutdownIdle(i)
        \/ ShutdownStartReturned(i)
        \/ ShutdownStartThrew(i)
        \/ ShutdownResolves(i)

SpecRun == SpecRunInit /\ [][HistoricalNext]_vars

\* run when sync.getEvents() has no batch to yield: start() switches to
\* realtime at once, and the realtime queue sees a longer run of events.
SpecRealtimeInit ==
    /\ RunInit([batches |-> 0, events |-> MaxRealtimeEvents,
                shutdowns |-> MaxShutdownCalls])
    /\ BfAbsent
    /\ NoCall

RealtimeNext ==
    \/ StartSetupDone
    \/ StartGetEventsEnd
    \/ StartThrows
    \/ StartFinalStep
    \/ StartRealtime
    \/ StartRealtimeDone
    \/ StartReturns
    \/ OnRealtimeEvent
    \/ RealtimeQueueNext
    \/ WorkerProcessEventsDone
    \/ WorkerCompleteDone
    \/ WorkerReorgStep
    \/ WorkerReturns
    \/ \E i \in ShutdownCalls :
        \/ ShutdownInvoke(i)
        \/ ShutdownKillDone(i)
        \/ ShutdownIdle(i)
        \/ ShutdownStartReturned(i)
        \/ ShutdownStartThrew(i)
        \/ ShutdownResolves(i)

SpecRealtime == SpecRealtimeInit /\ [][RealtimeNext]_vars

\* run with no historical batch and no realtime event, and the function run
\* returns invoked again, after or while an earlier invocation runs.
SpecShutdownInit ==
    /\ RunInit([batches |-> 0, events |-> 0,
                shutdowns |-> MaxShutdownCalls + MaxRepeatedShutdowns])
    /\ BfAbsent
    /\ NoCall

ShutdownNext ==
    \/ StartSetupDone
    \/ StartGetEventsEnd
    \/ StartThrows
    \/ StartFinalStep
    \/ StartRealtime
    \/ StartRealtimeDone
    \/ StartReturns
    \/ \E i \in ShutdownCalls :
        \/ ShutdownInvoke(i)
        \/ ShutdownKillDone(i)
        \/ ShutdownIdle(i)
        \/ ShutdownStartReturned(i)
        \/ ShutdownStartThrew(i)
        \/ ShutdownResolves(i)

SpecShutdown == SpecShutdownInit /\ [][ShutdownNext]_vars

\* The filter matchers, each applied once to inputs of the sets above.
SpecFilterInit == BfAbsent /\ RunAbsent /\ NoCall

FilterNext ==
    \/ IsLogFilterMatchedCall
    \/ IsCallTraceFilterMatchedCall
    \/ IsTransferFilterMatchedCall
    \/ IsTransactionFilterMatchedCall
    \/ IsBlockFilterMatchedCall
    \/ BlockSourceMatchCall

SpecFilter == SpecFilterInit /\ [][FilterNext]_vars

\* The client middleware serving requests to /client/db, one after the other.
SpecClientInit == BfAbsent /\ RunAbsent /\ NoCall

ClientNext ==
    \/ ClientDbRequest
    \/ ClientExecuteDone
    \/ ClientConnectDone
    \/ ClientQueryDone
    \/ ClientRollbackDone

SpecClient == SpecClientInit /\ [][ClientNext]_vars

\* /client/live: the event loop runs every continuation that is ready, and
\* a write to an open stream settles; notifications and clients going
\* away are not obliged to happen.
SpecLiveInit == BfAbsent /\ RunAbsent /\ NoCall

LiveNext ==
    \/ LiveNotification
    \/ \E i \in Streams :
        \/ LiveRequest(i)
        \/ LiveWriteDone(i)
        \/ LiveResume(i)
        \/ LiveClose(i)

SpecLive ==
    /\ SpecLiveInit /\ [][LiveNext]_vars
    /\ \A i \in Streams : WF_vars(LiveWriteDone(i)) /\ WF_vars(LiveResume(i))

SpecLatestInit == BfAbsent /\ RunAbsent /\ NoCall

LatestNext ==
    \/ \E c \in LatestCalls, n \in Networks : LatestCall(c, n)
    \/ \E n \in Networks, k \in LatestCalls : LatestAnswer(n, k)
    \/ \E c \in LatestCalls : LatestReturn(c)

SpecLatest == SpecLatestInit /\ [][LatestNext]_vars

SpecMetadataInit == BfAbsent /\ RunAbsent /\ NoCall

MetadataNext ==
    \/ MetadataBegin
    \/ SetStatusCall
    \/ GetStatusCall

SpecMetadata == SpecMetadataInit /\ [][MetadataNext]_vars

SpecSafeBuildInit == BfAbsent /\ RunAbsent /\ NoCall

SafeBuildNext == SafeBuildCall

SpecSafeBuild == SpecSafeBuildInit /\ [][SafeBuildNext]_vars

SpecBuildInit == BfAbsent /\ RunAbsent /\ NoCall

BuildNext == BuildContractSourcesCall

SpecBuild == SpecBuildInit /\ [][BuildNext]_vars


(***************************************************************************)
(* Part I, properties.                                                     *)
(***************************************************************************)
Planned(s) == bfPc[s] \in {"awaitLog", "awaitBlock", "resolved", "rejectedTask"}

PushedBlocks(s) ==
    UNION {BlocksOf(logPushed[s][i]) : i \in 1..Len(logPushed[s])}

PairwiseDisjoint(tasks) ==
    \A i, j \in 1..Len(tasks) :
        i # j => BlocksOf(tasks[i]) \cap BlocksOf(tasks[j]) = {}

\* C1: for startBlock <= latestBlockNumber, any cached intervals and any
\* blockLimit >= 1, the pushed log-backfill tasks are pairwise disjoint and
\* the union of their ranges is exactly the blocks of
\* [startBlock, latestBlockNumber] that no cached interval covers.
C1_PushedTasksCoverUncachedBlocks ==
    \A s \in Sources :
        (Planned(s) /\ source[s].blockLimit >= 1) =>
            /\ PairwiseDisjoint(logPushed[s])
            /\ PushedBlocks(s) =
                  Uncovered(<<source[s].startBlock, latestBlockNumber[s]>>,
                            cachedIntervals[s])

\* C2: with startBlock > latestBlockNumber the call rejects with the
\* configuration error before the cached intervals are read, with nothing
\* pushed on either queue and the statistics untouched; with
\* startBlock <= latestBlockNumber it never rejects this way.
C2_StartAfterLatestFailsFast ==
    \A s \in Sources :
        /\ bfPc[s] = "rejectedConfig" =>
              /\ source[s].startBlock > latestBlockNumber[s]
              /\ ~cacheRead[s]
              /\ logPushed[s] = <<>> /\ logQueue[s] = <<>> /\ logRunning[s] = {}
              /\ blockSeen[s] = {} /\ blockQueue[s] = <<>> /\ blockRunning[s] = {}
              /\ s \notin stats.planRows
              /\ stats.planRows = {} => stats = StatsInit(stats.sourceTotalCount)
        /\ (source[s].startBlock > latestBlockNumber[s]
              /\ bfPc[s] \notin {"absent", "called"}) => bfPc[s] = "rejectedConfig"
        /\ source[s].startBlock <= latestBlockNumber[s] => bfPc[s] # "rejectedConfig"

\* C2 witness: a call with startBlock > latestBlockNumber has been rejected.
C2_Witness ==
    /\ bfPc[1] = "rejectedConfig"
    /\ source[1].startBlock > latestBlockNumber[1]

\* C3: backfillSource resolves only when both queues are empty with no task
\* in flight, block tasks enqueued by running log tasks included.
C3_ResolvedOnlyWhenBothQueuesDrained ==
    \A s \in Sources :
        bfPc[s] = "resolved" =>
            /\ logQueue[s] = <<>> /\ logRunning[s] = {}
            /\ blockQueue[s] = <<>> /\ blockRunning[s] = {}

\* C3 witness: a source resolved after several log tasks ran and enqueued
\* block tasks.
C3_Witness ==
    /\ bfPc[1] = "resolved"
    /\ Len(logPushed[1]) >= 2
    /\ Cardinality(blockSeen[1]) >= 2

\* C4: a task of either queue that failed with its retries exhausted makes
\* backfillSource reject; the call never resolves after such a failure.
C4_PermanentFailureNeverResolves ==
    \A s \in Sources :
        bfPc[s] = "resolved" => (~logFailed[s] /\ ~blockFailed[s])


(***************************************************************************)
(* Part II, properties.                                                    *)
(***************************************************************************)
Positions(seq, x) == {j \in 1..Len(seq) : seq[j] = x}

\* Where the realtime log holds the given entry.
LogAt(id, op, k, phase) == Positions(rtLog, LogEntry(id, op, k, phase))

EventIds == 1..Len(rtEvents)

\* The worker's calls follow one another: a call that was made returns
\* before any other entry is logged.
LogSequential ==
    \A j \in 1..Len(rtLog) :
        rtLog[j][4] = "call" /\ j < Len(rtLog) =>
            rtLog[j + 1] = LogEntry(rtLog[j][1], rtLog[j][2], rtLog[j][3], "done")

\* The events appear in the log in arrival order.
LogInArrivalOrder ==
    \A i, j \in 1..Len(rtLog) : i < j => rtLog[i][1] <= rtLog[j][1]

\* Within a block event, processEvents of split k is called after complete
\* of split k - 1 has returned, complete of split k after processEvents of
\* split k, and setStatus after complete of the last split.
SplitsInOrder ==
    \A j \in 1..Len(rtLog) :
        LET id == rtLog[j][1]
            op == rtLog[j][2]
            k == rtLog[j][3]
        IN rtLog[j][4] = "call" =>
            /\ (op = "processEvents" /\ k > 1) =>
                  \E i \in LogAt(id, "complete", k - 1, "done") : i < j
            /\ op = "complete" =>
                  \E i \in LogAt(id, "processEvents", k, "done") : i < j
            /\ (op = "setStatus" /\ rtEvents[id].splits > 0) =>
                  \E i \in LogAt(id, "complete", rtEvents[id].splits, "done") : i < j

\* C5: the realtime queue runs one worker invocation at a time, in arrival
\* order, and within a block event every split's processEvents and
\* database.complete have returned before the next split or event begins.
C5_RealtimeEventsOneAtATimeInOrder ==
    /\ Cardinality(rtWorkers) <= 1
    /\ LogSequential
    /\ LogInArrivalOrder
    /\ SplitsInOrder
    /\ \A i, j \in 1..Len(rtApplied) : i < j => rtApplied[i] < rtApplied[j]

\* C5 witness: the worker is at the second split of a block event while
\* another event waits in the queue.
C5_Witness ==
    /\ rtQueue # <<>>
    /\ \E w \in rtWorkers :
        /\ rtEvents[w.id].type = "block"
        /\ w.pc = "complete" /\ w.k = 2

\* The first call the worker makes for an event.
FirstCallOf(id) ==
    LET w == WorkerFirstCall(id, rtEvents[id])
    IN LogEntry(id, w.pc, w.k, "call")

\* C6: while the shutdown function has not been invoked, every event
\* handed to onRealtimeEvent is waiting, being applied or applied, exactly
\* one of these and exactly once: none is dropped, none applied twice.
C6_NoRealtimeEventDroppedOrRepeated ==
    ~isKilled =>
        \A id \in EventIds :
            /\ Cardinality(Positions(rtQueue, id))
                  + Cardinality({w \in rtWorkers : w.id = id})
                  + Cardinality(Positions(rtApplied, id)) = 1
            /\ Cardinality(Positions(rtLog, FirstCallOf(id))) =
                  (IF Positions(rtQueue, id) = {} THEN 1 ELSE 0)

\* C6 witness: the consumer is behind (an event waits while the worker is
\* busy with an earlier one) and shutdown has not been invoked.
C6_Witness ==
    /\ ~isKilled
    /\ rtWorkers # {}
    /\ rtQueue # <<>>

ReorgIds == {id \in EventIds : rtEvents[id].type = "reorg"}

\* C7: for a reorg event the worker calls removeTriggers, revert and
\* createTriggers in this order, each after the one before has returned,
\* and no later event is begun before createTriggers has returned.
C7_ReorgRevertsBeforeLaterEvents ==
    \A id \in ReorgIds :
        /\ \A j \in LogAt(id, "revert", 0, "call") :
              \E i \in LogAt(id, "removeTriggers", 0, "done") : i < j
        /\ \A j \in LogAt(id, "createTriggers", 0, "call") :
              \E i \in LogAt(id, "revert", 0, "done") : i < j
        /\ \A j \in 1..Len(rtLog) :
              rtLog[j][1] > id =>
                  \E i \in LogAt(id, "createTriggers", 0, "done") : i < j
        /\ Positions(rtApplied, id) # {} =>
              /\ LogAt(id, "revert", 0, "done") # {}
              /\ LogAt(id, "createTriggers", 0, "done") # {}

\* C7 witness: an event queued during a reorg has been applied after it.
C7_Witness ==
    \E id \in ReorgIds :
        /\ id + 1 \in EventIds
        /\ Positions(rtApplied, id + 1) # {}

\* C8: metadataStore.setStatus is called after every applied block,
\* finalize and reorg event.
C8_StatusSetAfterEveryAppliedEvent ==
    \A id \in EventIds :
        Positions(rtApplied, id) # {} => LogAt(id, "setStatus", 0, "done") # {}

UnlockCalled(i) == shutdownPc[i] \in {"unlock", "resolved"}

\* C9: database.unlock() is called, and the shutdown function resolves,
\* only after sync.kill() has resolved, with no worker invocation in
\* progress (and none able to begin), and with start() settled.
C9_UnlockOnlyWhenEverythingStopped ==
    (dbUnlockCalls > 0 \/ \E i \in ShutdownCalls : UnlockCalled(i)) =>
        /\ sync.killed
        /\ rtWorkers = {}
        /\ ~rtStarted
        /\ StartSettled

\* C9 witness: the shutdown function has resolved in a run where realtime
\* events were applied and start() had reached realtime.
C9_Witness ==
    /\ shutdownPc[1] = "resolved"
    /\ rtApplied # <<>>
    /\ sync.realtimeCalls > 0

\* C10: an invocation of the shutdown function that has ended has called
\* database.unlock(), also when start() ended with an exception.
C10_ShutdownAlwaysUnlocks ==
    \A i \in ShutdownCalls :
        shutdownPc[i] \in {"resolved", "rejected"} => dbUnlockCalls > 0

\* C11: shutdown is idempotent: however often the function run returns is
\* invoked, sync.kill and database.unlock are performed at most once.
C11_ShutdownIdempotent ==
    /\ sync.killCalls <= 1
    /\ dbUnlockCalls <= 1

(***************************************************************************)
(* start(), properties.                                                    *)
(***************************************************************************)
\* The positions of startLog at which start() made the call op.
StartCallsOf(op) == {i \in 1..Len(startLog) : startLog[i] = op}

\* start() made the call op, and a later call, so that op has returned.
StartCompletedBefore(op, later) ==
    \E i \in StartCallsOf(op) : \E j \in StartCallsOf(later) : i < j

\* Every batch sync.getEvents() has yielded was handled and followed by the
\* next request to the generator.
AllBatchesProcessed ==
    /\ Cardinality(StartCallsOf("getEvents")) = batchCount + 1
    /\ Cardinality(StartCallsOf("setStatus")) = batchCount
    /\ \A i \in StartCallsOf("getEvents") \cup StartCallsOf("setStatus") :
           \A j \in StartCallsOf("startRealtime") : i < j

\* C12: sync.startRealtime() is called at most once, after every yielded
\* batch was processed, the final flush, createIndexes and createTriggers
\* have completed and the realtime indexing store is installed; no realtime
\* event is handled with the historical store or before the triggers exist.
C12_RealtimeStartsAfterHistoricalDone ==
    /\ sync.realtimeCalls <= 1
    /\ Cardinality(StartCallsOf("startRealtime")) = sync.realtimeCalls
    /\ sync.realtimeCalls > 0 =>
        /\ AllBatchesProcessed
        /\ \A op \in {"finalFlush", "createIndexes", "createTriggers"} :
               StartCompletedBefore(op, "startRealtime")
        /\ indexingStore = "realtime"
    /\ rtLog # <<>> =>
        /\ indexingStore = "realtime"
        /\ StartCompletedBefore("createTriggers", "startRealtime")

\* C12 witness: after a historical batch, start() has called startRealtime
\* and a realtime event has been applied.
C12_Witness ==
    /\ batchCount > 0
    /\ sync.realtimeCalls = 1
    /\ rtApplied # <<>>

(***************************************************************************)
(* The filter matchers, properties.                                        *)
(***************************************************************************)
MatcherCalls ==
    {"isLogFilterMatched", "isCallTraceFilterMatched", "isTransferFilterMatched",
     "isTransactionFilterMatched", "isBlockFilterMatched"}

CallBlockNumber == hexToNumber(call.block.number)

BelowFromBlock == CallBlockNumber < call.filter.fromBlock

AboveToBlock ==
    call.filter.toBlock # <<>> /\ CallBlockNumber > call.filter.toBlock[1]

\* The block is fromBlock or toBlock of a range that is not empty.
AtRangeBoundary ==
    /\ ~BelowFromBlock /\ ~AboveToBlock
    /\ \/ CallBlockNumber = call.filter.fromBlock
       \/ call.filter.toBlock = <<CallBlockNumber>>

\* The filter of the call asks for nothing but the block range, and the
\* object is one such a filter can match.
OnlyRangeAsked ==
    CASE call.op = "isLogFilterMatched" ->
            \A f \in {"address", "topic0", "topic1", "topic2", "topic3"} :
                call.filter[f] = Undefined
      [] call.op = "isBlockFilterMatched" -> call.filter.interval = 1
      [] call.op = "isTransferFilterMatched" ->
            /\ call.filter.fromAddress = Undefined
            /\ call.filter.toAddress = Undefined
            /\ call.object.action.input = "0x"
      [] OTHER ->
            /\ call.filter.fromAddress = Undefined
            /\ call.filter.toAddress = Undefined

\* C13: each of the five matchers returns false for a block below fromBlock
\* or above toBlock (an undefined toBlock is unbounded), and does not reject
\* a block equal to fromBlock or toBlock for its number.
C13_OutOfRangeBlocksNeverMatch ==
    call.op \in MatcherCalls =>
        /\ (BelowFromBlock \/ AboveToBlock) => call.result = FALSE
        /\ (AtRangeBoundary /\ OnlyRangeAsked) => call.result = TRUE

\* C13 witness: a transfer filter that asks for nothing but its range is
\* applied to a native transfer in a block above toBlock.
C13_Witness ==
    /\ call.op = "isTransferFilterMatched"
    /\ AboveToBlock /\ ~BelowFromBlock
    /\ OnlyRangeAsked
    /\ call.result = FALSE

\* The two hex strings are equal when case is ignored.
SameIgnoringCase(a, b) == a.hex = b.hex

\* The filter's field is null, equals the value or contains it.
FieldAccepts(field, present, value) ==
    \/ field.kind = "undefined"
    \/ /\ present /\ field.kind = "literal"
       /\ SameIgnoringCase(field.value, value)
    \/ /\ present /\ field.kind = "list"
       /\ \E v \in Range(field.values) : SameIgnoringCase(v, value)

\* The filter's slot i (from 0) accepts the log's topic at that position.
TopicSlotAccepts(i) ==
    LET field == call.filter[<<"topic0", "topic1", "topic2", "topic3">>[i + 1]]
        present == i + 1 <= Len(call.object.topics)
    IN FieldAccepts(field, present,
                    IF present THEN call.object.topics[i + 1] ELSE UndefinedHex)

InRangeLogCall ==
    call.op = "isLogFilterMatched" /\ ~BelowFromBlock /\ ~AboveToBlock

\* C14 as stated: for an in-range block, isLogFilterMatched returns true
\* exactly when every topic slot of the filter is null or equals / contains
\* the log's topic, case ignored, and the filter's address is absent,
\* equals or contains the log's address.
C14_LogMatchIffTopicsAndAddress ==
    InRangeLogCall =>
        call.result =
            /\ \A i \in 0..3 : TopicSlotAccepts(i)
            /\ FieldAccepts(call.filter.address, TRUE, call.object.address)

\* C14, amended: ... and the filter's address is absent, equals or contains
\* the log's address, or is a factory (whose child addresses are not
\* checked by the matcher).
C14_LogMatchIffTopicsAndAddressOrFactory ==
    InRangeLogCall =>
        call.result =
            /\ \A i \in 0..3 : TopicSlotAccepts(i)
            /\ \/ isAddressFactory(call.filter.address)
               \/ FieldAccepts(call.filter.address, TRUE, call.object.address)

\* C14 witness: topic0 = [selectorA, selectorB] and no address; a log whose
\* topic0 is selectorA (checksummed) is matched.
C14_Witness ==
    /\ InRangeLogCall
    /\ call.filter.topic0 = List(<<selectorA, selectorB>>)
    /\ call.filter.address = Undefined
    /\ Len(call.object.topics) > 0
    /\ call.object.topics[1] = Hex("selectorA", TRUE)
    /\ call.result = TRUE

BlockFilterCall == call.op = "isBlockFilterMatched"

BuiltBlockSourceCall == call.op = "blockSources" /\ ~call.threw

\* interval divides n.
Divides(interval, n) ==
    \E k \in -(Abs(n))..Abs(n) : n = k * interval

\* The block of the call is fromBlock + k * step for some k >= 0.
OnProgression(step) ==
    \E k \in 0..MaxIntervalBlock :
        CallBlockNumber = call.filter.fromBlock + k * step

\* isBlockFilterMatched returns true exactly for an in-range block with
\* (blockNumber - offset) mod interval = 0.
BlockMatchIffInRangeAndOnInterval ==
    BlockFilterCall =>
        call.result =
            /\ ~BelowFromBlock /\ ~AboveToBlock
            /\ Divides(call.filter.interval, CallBlockNumber - call.filter.offset)

\* C15 as stated: ... and for a block source built from the config (offset
\* = fromBlock mod interval, interval a non-zero integer) the matched
\* blocks are exactly fromBlock, fromBlock + interval, fromBlock +
\* 2 * interval, ... up to toBlock.
C15_BlockMatchOnIntervalFromFromBlock ==
    /\ BlockMatchIffInRangeAndOnInterval
    /\ BuiltBlockSourceCall =>
        call.result =
            /\ ~BelowFromBlock /\ ~AboveToBlock
            /\ OnProgression(call.filter.interval)

\* C15, amended: ... the matched blocks are exactly fromBlock, fromBlock +
\* |interval|, fromBlock + 2 * |interval|, ... up to toBlock: the claimed
\* progression when the interval is positive.
C15_BlockMatchOnAbsIntervalFromFromBlock ==
    /\ BlockMatchIffInRangeAndOnInterval
    /\ BuiltBlockSourceCall =>
        call.result =
            /\ ~BelowFromBlock /\ ~AboveToBlock
            /\ OnProgression(Abs(call.filter.interval))

\* C15 witness: a block source built with an interval of 3 matches the
\* block fromBlock + 6.
C15_Witness ==
    /\ BuiltBlockSourceCall
    /\ call.filter.interval = 3
    /\ call.filter.fromBlock % 3 # 0
    /\ CallBlockNumber = call.filter.fromBlock + 6
    /\ call.result = TRUE

TransferCall == call.op = "isTransferFilterMatched"

TransactionCall == call.op = "isTransactionFilterMatched"

\* C16: isTransferFilterMatched returns false for every call trace whose
\* input data is not empty, whatever the filter's addresses are.
C16_TransferNeedsEmptyInput ==
    (TransferCall /\ call.object.action.input # "0x") => call.result = FALSE

\* C16 witness: a call trace with input data, in range and with no demand
\* on its addresses, is not matched by a transfer filter.
C16_Witness ==
    /\ TransferCall
    /\ ~BelowFromBlock /\ ~AboveToBlock
    /\ call.filter.fromAddress = Undefined
    /\ call.filter.toAddress = Undefined
    /\ call.object.action.input # "0x"
    /\ call.result = FALSE

\* The sender and the recipient of the call's object; the recipient of a
\* transaction is <<>> when it is null.
SenderOf == IF TransferCall THEN call.object.action.from ELSE call.object.from

RecipientOf ==
    IF TransferCall THEN <<call.object.action.to>> ELSE call.object.to

\* C17: isTransferFilterMatched and isTransactionFilterMatched return false
\* when the filter has a literal fromAddress that differs from the sender,
\* and when it has a literal toAddress that differs from the recipient,
\* whatever the kind of the filter's other address.
C17_LiteralAddressMismatchNeverMatches ==
    (TransferCall \/ TransactionCall) =>
        /\ ( /\ call.filter.fromAddress.kind = "literal"
             /\ ~SameIgnoringCase(call.filter.fromAddress.value, SenderOf) )
                => call.result = FALSE
        /\ ( /\ call.filter.toAddress.kind = "literal"
             /\ \A r \in Range(RecipientOf) :
                    ~SameIgnoringCase(call.filter.toAddress.value, r) )
                => call.result = FALSE

\* C18: a call trace whose call type differs from the filter's callType is
\* never matched by isCallTraceFilterMatched.
C18_CallTypeMismatchNeverMatches ==
    ( /\ call.op = "isCallTraceFilterMatched"
      /\ call.object.action.callType # call.filter.callType )
        => call.result = FALSE

\* C19: when the log filter's address is a factory, the result of
\* isLogFilterMatched is the same for every value of log.address.
C19_FactoryLogAddressNotChecked ==
    ( /\ call.op = "isLogFilterMatched"
      /\ isAddressFactory(call.filter.address) ) =>
        \A a \in ObjectAddresses :
            isLogFilterMatched(call.filter, call.block,
                               [call.object EXCEPT !.address = a]) = call.result

\* C19 witness: a log from an address other than the factory contract's is
\* matched by a filter whose address is a factory.
C19_Witness ==
    /\ call.op = "isLogFilterMatched"
    /\ call.filter.address = Factory(addrA)
    /\ call.object.address = Hex("addrC", FALSE)
    /\ call.result = TRUE

(***************************************************************************)
(* The client middleware, properties.                                      *)
(***************************************************************************)
ClientSettled == call.op = "client.db" /\ call.pc = "done"

\* C20: a request to /client/db without sql parameter, or whose query
\* holds the word COMMIT, is answered 400 with nothing executed; any other
\* is answered 200 exactly when the database has executed the query, and
\* 500 with the database's error message when a statement failed; a failing
\* query never yields 200 and never leaves the handler as an exception.
C20_ClientDbStatusFollowsExecution ==
    ClientSettled =>
        IF \/ call.param.kind = "missing"
           \/ call.param.kind = "query" /\ MatchesCommit(call.param.sql)
        THEN call.response.status = 400 /\ call.sent = <<>>
        ELSE /\ (call.response.status = 200) = call.executed
             /\ call.failed # "none" =>
                    call.response = [status |-> 500, body |-> call.failed]
             /\ ~call.executed => call.threw = "none"

\* The request is a query that the handler has accepted (lines 81-91).
ClientAccepted ==
    /\ call.op = "client.db"
    /\ call.param.kind = "query"
    /\ ~MatchesCommit(call.param.sql)

\* C21: no sequence of /client/db requests changes the contents of the
\* database; on the pool driver the statements of an accepted query begin
\* with BEGIN READ ONLY and end with ROLLBACK once the connection is
\* released; an accepted write is answered with status 500.
C21_ClientDbNeverWrites ==
    call.op = "client.db" =>
        /\ call.writes = 0
        /\ call.released =>
              /\ call.sent[1] = "BEGIN READ ONLY"
              /\ call.sent[Len(call.sent)] = "ROLLBACK"
        /\ (ClientSettled /\ ClientAccepted /\ IsWrite(call.param.sql)) =>
              call.response.status = 500

\* The task lies inside one of the required intervals of source s.
InsideRequiredInterval(s, task) ==
    \E i \in 1..Len(RequiredBlockIntervals(s)) :
        /\ RequiredBlockIntervals(s)[i][1] <= task[1]
        /\ task[2] <= RequiredBlockIntervals(s)[i][2]

\* C22: every log-backfill task pushed by backfillSource has
\* fromBlock <= toBlock, lies inside a single required interval, and spans
\* at most source.blockLimit blocks: toBlock - fromBlock + 1 <= blockLimit
\* (for a blockLimit of at least 1).
C22_LogTaskSpansAtMostBlockLimit ==
    \A s \in Sources : \A i \in 1..Len(logPushed[s]) :
        LET task == logPushed[s][i]
        IN source[s].blockLimit >= 1 =>
           /\ task[1] <= task[2]
           /\ InsideRequiredInterval(s, task)
           /\ task[2] - task[1] + 1 <= source[s].blockLimit

\* What holds of the pushed tasks: toBlock - fromBlock <= blockLimit.
LogTaskSpansAtMostBlockLimitPlusOne ==
    \A s \in Sources : \A i \in 1..Len(logPushed[s]) :
        LET task == logPushed[s][i]
        IN /\ task[1] <= task[2]
           /\ InsideRequiredInterval(s, task)
           /\ task[2] - task[1] <= source[s].blockLimit

BuildCall == call.op = "buildContractSources"

\* The selectors that the log sources of the build ask for.
BuiltSelectors ==
    UNION {Range(call.result.logSources[i].topic0) :
             i \in 1..Len(call.result.logSources)}

\* The events named in the filter option for which no indexing function is
\* registered.
FilteredUnregistered == Range(call.filter.events) \ call.registered

\* C23: an event of the ABI that the filter option names and that has no
\* registered indexing function is silently excluded: the build does not
\* fail, and the event's selector is in no topic0 of a log source built.
C23_FilteredUnregisteredEventExcluded ==
    (/\ BuildCall
     /\ (Range(call.filter.events) \cup call.registered) \subseteq AbiEventNames
     /\ FilteredUnregistered # {}) =>
        /\ call.result.status = "success"
        /\ \A e \in FilteredUnregistered : selector(e) \notin BuiltSelectors

\* The calls of start() that make the app live: lines 273-286.
BecomeHealthyCalls ==
    {"createIndexes", "createTriggers", "startRealtime", "finalStatus"}

\* C24: once the shutdown function has been invoked (isKilled is set),
\* start() makes none of the calls createIndexes, createTriggers,
\* sync.startRealtime and the final setStatus, wherever start() was when
\* the shutdown function was invoked.
C24_NoRealtimeStartAfterShutdown ==
    [][isKilled => (startPc' = startPc \/ startPc' \notin BecomeHealthyCalls)]_vars

\* The calls of the in-loop flush, lines 207-216.
InLoopFlushCalls ==
    {"flush:finalize(zero)", "flush", "flush:complete(zero)",
     "flush:finalize(last)"}

\* The calls of the final flush, lines 246-249.
FinalFlushCalls ==
    {"finalize(zero)", "finalFlush", "complete(zero)", "finalize(finalized)"}

\* Processing of the batch at hand has returned error or killed.
BatchFailed == startBatch.result \in {"error", "killed"}

C26_FailedSplitNotCompleted ==
    [][reloadableErrors' # reloadableErrors =>
          \A w \in rtWorkers' : w.pc # "complete"]_vars

\* The call at position i of startLog is preceded by `before` and, as far
\* as start() has gone on, followed by `after1` and then `after2`.
Bracketed(i, before, after1, after2) ==
    /\ i > 1 /\ startLog[i - 1] = before
    /\ i + 1 <= Len(startLog) => startLog[i + 1] = after1
    /\ i + 2 <= Len(startLog) => startLog[i + 2] = after2

C28_FailedBatchNotFlushed ==
    BatchFailed => startPc \notin InLoopFlushCalls

\* C29: indexingService.processSetupEvents is called exactly when the
\* initial checkpoint is the encoded zero checkpoint, once and before any
\* historical batch is asked for; when it returns killed or error, start()
\* processes no historical batch and never calls sync.startRealtime(), and
\* onReloadableError is called once after error and not at all after killed.
C29_SetupEventsFirstAndFatal ==
    /\ StartCallsOf("processSetupEvents") = IF initialZero THEN {1} ELSE {}
    /\ (startPc = "processSetupEvents") = (initialZero /\ setupResult = "none")
    /\ setupResult \in {"killed", "error"} =>
          /\ startLog = <<"processSetupEvents">>
          /\ startPc = "returned"
          /\ batchCount = 0
          /\ sync.realtimeCalls = 0
          /\ reloadableErrors = IF setupResult = "error" THEN 1 ELSE 0

C29_Witness ==
    /\ setupResult = "killed"
    /\ startPc = "returned"
    /\ limits.batches > 0

RECURSIVE PushedBy(_)
PushedBy(S) ==
    IF S = {} THEN 0
    ELSE LET s == CHOOSE x \in S : TRUE
         IN Len(logPushed[s]) + PushedBy(S \ {s})

AllPlanned == \A s \in Sources : Planned(s)

\* C30: when backfillSource runs for all stats.sourceTotalCount sources
\* at once with isHotReload false, the progress bar is started at most
\* once, and once every source has finished planning it has been started
\* exactly once and its total is the number of log-backfill tasks pushed by
\* all sources together, in whatever order the cache reads return.
C30_ProgressBarTotalCountsAllTasks ==
    (~isHotReload /\ stats.sourceTotalCount = NumSources) =>
        /\ stats.barStarted <= 1
        /\ AllPlanned =>
              /\ stats.barStarted = 1
              /\ stats.barTotal = PushedBy(Sources)

\* C31: on the pool driver a request that has acquired a connection
\* releases it on every path, after ROLLBACK was sent: when the handler has
\* ended, the connection is released, and a released connection has had
\* ROLLBACK as its last statement.
C31_ConnectionAlwaysReleased ==
    (call.op = "client.db" /\ call.connected) =>
        /\ ClientSettled => call.released
        /\ call.released => call.sent[Len(call.sent)] = "ROLLBACK"

\* C32: whenever the connection is released, the prepared statement
\* ponder_client is no longer defined on it, also when the query failed
\* during EXECUTE, so that the request served next on the connection does
\* not depend on the earlier one: its PREPARE is not rejected.
C32_ReleasedConnectionHasNoPreparedStatement ==
    call.op = "client.db" =>
        /\ call.released => ~call.prepared
        /\ call.pc = "PREPARE" => ~call.prepared

\* Stream i is open and a notification has arrived since its latest
\* message was produced.
NotificationUnserved(i) ==
    /\ LiveCall
    /\ call.streams[i].pc \in {"writing", "waiting"}
    /\ call.streams[i].unserved

\* C33: for an open /client/live stream no status notification is lost:
\* a notification that arrives after the stream's latest message was
\* produced, be it while the stream writes or while it waits, is eventually
\* followed by a further message on the stream (unless the stream is
\* closed).
C33_NoNotificationLost ==
    \A i \in Streams : NotificationUnserved(i) ~> ~NotificationUnserved(i)

\* C34: during one build, however many "latest" of a network are resolved
\* and however the resolutions interleave, eth_blockNumber is requested at
\* most once for the network, and every "latest" of the network resolves to
\* the same block number.
C34_LatestRequestedOncePerNetwork ==
    IsLatest =>
        /\ \A n \in Networks : Len(call.requests[n]) <= 1
        /\ \A c, d \in LatestCalls :
              (/\ call.callers[c].pc = "returned"
               /\ call.callers[d].pc = "returned"
               /\ call.callers[c].network = call.callers[d].network) =>
                  call.callers[c].result = call.callers[d].result

\* Two "latest" of one network were asked for while the request was
\* pending, a third after it was answered, and all have returned.
C34_Witness ==
    /\ IsLatest
    /\ \A c \in LatestCalls :
          call.callers[c].pc = "returned" /\ call.callers[c].network = 1
    /\ call.callers[1].result = MaxHead

\* C35, for the log sources of a contract: in a successful build with at
\* least one indexing function registered, every log source returned has a
\* registered indexing function for it: an event among the registered ones
\* whose selector its topic0 holds.
C35_EveryLogSourceHasIndexingFunction ==
    (BuildCall /\ call.result.status = "success" /\ call.registered # {}) =>
        \A i \in 1..Len(call.result.logSources) :
            \E e \in call.registered :
                selector(e) \in Range(call.result.logSources[i].topic0)

\* An event name has a format when a separator stands between two
\* nonempty parts of it (source:event, source.function,
\* source:transfer:from), and it names a source of the config when it
\* begins with the source's name and a separator.
WellFormed(eventName) ==
    \E k \in 2..(Len(eventName) - 1) : eventName[k] \in {":", "."}

KnownSource(config, eventName) ==
    /\ Len(eventName) >= 2
    /\ eventName[1] \in config.contracts \cup config.accounts \cup config.blocks
    /\ eventName[2] \in {":", "."}

\* The defects of an input that the claim lists.
Defective(config, fns) ==
    \/ (config.contracts \cap config.accounts) \cup
          (config.contracts \cap config.blocks) \cup
          (config.accounts \cap config.blocks) # {}
    \/ \E i, j \in 1..Len(fns) : i # j /\ fns[i] = fns[j]
    \/ \E k \in 1..Len(fns) :
          ~WellFormed(fns[k]) \/ ~KnownSource(config, fns[k])
    \/ /\ "A" \in config.contracts \cup config.accounts \cup config.blocks
       /\ \/ config.network # "mainnet"
          \/ config.endBlock # <<>> /\ config.startBlock > config.endBlock[1]
    \/ config.pollingInterval # <<>> /\ config.pollingInterval[1] < 100
    \/ fns = <<>>

\* C36: safeBuildConfigAndIndexingFunctions never throws, and it returns
\* status error, never success, when the input has a duplicate source name,
\* two indexing functions for one event name, an event name that is
\* malformed or names an unknown source, a source naming an unknown
\* network, a start block after its end block, a pollingInterval below 100
\* or no indexing function.
C36_DefectiveInputReturnsError ==
    call.op = "safeBuild" =>
        /\ ~call.threw
        /\ Defective(call.config, call.fns) => call.result.status = "error"

C36_Witness ==
    /\ call.op = "safeBuild"
    /\ call.config.blocks \cap call.config.accounts # {}
    /\ call.config.pollingInterval = <<100>>
    /\ call.fns = << <<"A", ":", "block">> >>
    /\ call.result.error = "Duplicate source name"

\* C37: getStatus after one setStatus(s) on an empty table returns s, and
\* the table never holds two rows of one chain: a later setStatus of a
\* chain replaces the chain's row.
C37_StatusRoundTrips ==
    MetadataCall =>
        /\ (Len(call.sets) = 1 /\ call.gets = 2) =>
              call.got = [null |-> FALSE, status |-> call.sets[1]]
        /\ \A i, j \in 1..Len(call.table) :
              call.table[i].chain_id = call.table[j].chain_id => i = j
        /\ (Len(call.sets) = 2) =>
              \A c \in DOMAIN call.sets[2] :
                \E i \in 1..Len(call.table) :
                    call.table[i] = StatusRow(c, call.sets[2][c])

\* The least integer that is at least a / b, for a >= 0 and b >= 1.
CeilDiv(a, b) == (a + b - 1) \div b

\* The pushed tasks of source s whose fromBlock lies in the interval.
PushedIn(s, interval) ==
    {i \in 1..Len(logPushed[s]) :
        logPushed[s][i][1] \in interval[1]..interval[2]}

\* C38: for every blockLimit >= 0 and every required interval [start, end]
\* the chunking loop has ended having pushed at most
\* ceil((end - start + 1) / (blockLimit + 1)) tasks of the interval, and
\* fromBlock increases strictly from one pushed task to the next.
C38_ChunkLoopPushesBoundedTasks ==
    \A s \in Sources :
        Planned(s) =>
            LET required == RequiredBlockIntervals(s)
            IN /\ \A k \in 1..Len(required) :
                     Cardinality(PushedIn(s, required[k])) <=
                        CeilDiv(required[k][2] - required[k][1] + 1,
                                source[s].blockLimit + 1)
               /\ \A i \in 1..Len(logPushed[s]) :
                     \E k \in 1..Len(required) : i \in PushedIn(s, required[k])
               /\ \A i \in 1..(Len(logPushed[s]) - 1) :
                     logPushed[s][i][1] < logPushed[s][i + 1][1]

\* C38 witness: a required interval of four blocks or more was chunked
\* with blockLimit 1 into two tasks or more.
C38_Witness ==
    /\ Planned(1)
    /\ source[1].blockLimit = 1
    /\ \E k \in 1..Len(RequiredBlockIntervals(1)) :
          LET interval == RequiredBlockIntervals(1)[k]
          IN /\ interval[2] - interval[1] >= 3
             /\ Cardinality(PushedIn(1, interval)) >= 2

=========================================================================
